---- MODULE Spec2Model ----
(***************************************************************************)
(* A model of the mini-libs decode pipeline: mini_deflate (BitStreamer,    *)
(* canonical Huffman trees, block decoding), mini_adler32, mini_zlib and   *)
(* mini_png (chunk framing, IHDR validation, scanline reconstruction).     *)
(*                                                                         *)
(* Every function of the source is an operator computed as the code        *)
(* computes it; each specification below drives one layer with inputs      *)
(* drawn from bounded sets.                                                *)
(***************************************************************************)
EXTENDS Integers, Sequences, FiniteSets, TLC

VARIABLES
    oobMem,   \* the bytes that follow a BitStreamer's buffer in memory (read only by
              \* an out-of-range data[byte_pos])
    bis,      \* SpecBits: the mini_deflate::BitStreamer
    bsLast,   \* SpecBits: the last call: operation, argument, value returned, and the
              \* unread bits before it
    dDesc,    \* SpecDeflate: the blocks the input stream was encoded from
    dCut,     \* SpecDeflate: how many bytes were cut from the end of the encoded stream
    dBs,      \* SpecDeflate: the BitStreamer passed to Decompress
    dPc,      \* SpecDeflate: "loop" at the head of the block loop, "done" once returned
    dResult,  \* SpecDeflate: the value Decompress returned
    dSink,    \* SpecDeflate: the fragments passed to callbackFn, in order
    zIn,      \* SpecZlib: what the source stream was built from
    zData,    \* SpecZlib: the bytes of the source stream
    zLength,  \* SpecZlib: the outer length bound passed to Decompress
    zPc,      \* SpecZlib: "call" before the call, "done" once it returned
    zOut,     \* SpecZlib: what mini_zlib::Decompress returned and did
    pIn,      \* SpecPng: what the input was built from
    pData,    \* SpecPng: the bytes the ByteStreamer wraps
    pPos,     \* SpecPng: ByteStreamer::pos
    pPc,      \* SpecPng: where Parse is: "signature", "first", "loop", "done", ...
    pResult,  \* SpecPng: the value Parse returned
    pHdr,     \* SpecPng: what ParseImageHeader did for the first chunk
    pCalls,   \* SpecPng: how many times imageHeaderFn was called
    pPast,    \* SpecPng: a read or a skip of Parse's own went past the end of pData
    pLast,    \* SpecPng: the chunk header the last step read, and the state before it
    pChunks,  \* SpecPng: how many chunk headers have been read
    dctx,     \* the DecodeContext (SpecCtx, SpecPng)
    rowLog,   \* the rows passed to scanLineFn so far, in order (SpecCtx, SpecPng)
    cStream,  \* SpecCtx: the decompressed byte stream
    cOff,     \* SpecCtx: how many of its bytes have been passed to ProcessImageData
    cJoined,  \* SpecCtx: whether some row came from a scanline completed in pendingData
    cRaw,     \* SpecRows: the raw rows of the image the stream was filtered from
    hLens,    \* SpecHuffman: the code-length vector
    hSym,     \* SpecHuffman: the symbol whose code the bit stream presents
    hPad,     \* SpecHuffman: the bit that fills the stream after the code
    hTree,    \* SpecHuffman: the Tree BuildCodeTree returned
    hPc,      \* SpecHuffman: "build", "decode", "done", or "crashed"
    hOut,     \* SpecHuffman: what GetSymbol returned and left of the BitStreamer
    aA,       \* SpecAdler: the bytes of the first Update
    aB,       \* SpecAdler: the bytes of the second Update
    aValue,   \* SpecAdler: Adler32::value
    aPc,      \* SpecAdler: how many Update calls were made
    yProg,    \* SpecDynamic: what the dynamic block was built from
    yBs,      \* SpecDynamic: the BitStreamer, placed after the block header
    yTrees,   \* SpecDynamic: what ConstructDynamicTrees returned
    yBlock,   \* SpecDynamic: what DecompressBlock returned
    yPc       \* SpecDynamic: "trees", "data", "done"

(***************************************************************************)
(* Machine arithmetic                                                      *)
(***************************************************************************)
Pow2(n) == 2 ^ n

\* x >> n and x << n on non-negative values
Shr(x, n) == x \div Pow2(n)
Shl(x, n) == x * Pow2(n)

\* x & ((1 << n) - 1)
LowBits(x, n) == x % Pow2(n)

RECURSIVE BitOr(_, _)
BitOr(a, b) ==
    IF a = 0 THEN b
    ELSE IF b = 0 THEN a
    ELSE (IF a % 2 = 1 \/ b % 2 = 1 THEN 1 ELSE 0) + 2 * BitOr(a \div 2, b \div 2)

Min(a, b) == IF a <= b THEN a ELSE b

\* A 32-bit unsigned value (std::uint32_t) as its two 16-bit halves: TLC's
\* integers end at 2^31 - 1, and widths, chunk types and checksums use all 32 bits.
W32(hi, lo) == [hi |-> hi, lo |-> lo]

\* (v << 8) | b on a uint32_t
ShlOr8(v, b) == W32((v.hi * 256 + v.lo \div 256) % 65536, (v.lo % 256) * 256 + b)

\* The value as an integer.  It is a size (chunk length, stream position) compared
\* with and added to positions in inputs of a few hundred bytes at most, on a 64-bit
\* size_t that cannot wrap there: values from 2^30 on are all "past every input" and
\* are kept as 2^30.
SizeCap == 1073741824
ToSize(v) == IF v.hi >= 16384 THEN SizeCap ELSE v.hi * 65536 + v.lo
AddSize(a, b) == IF a + b >= SizeCap THEN SizeCap ELSE a + b

\* std::optional<int>
ValueOr(o, d) == IF o.has THEN o.v ELSE d

(***************************************************************************)
(* mini_deflate::BitStreamer                                               *)
(*                                                                         *)
(* data is the byte sequence the reader wraps.  data[byte_pos] with        *)
(* byte_pos >= data.size() is undefined behaviour: the build either reads  *)
(* whatever memory follows the buffer (oob, chosen when the reader is      *)
(* created) or the process dies (crashed).  ub records that the byte       *)
(* sequence was indexed at a position >= its size.                         *)
(*                                                                         *)
(* bit_buf is a uint32_t.  Every caller asks for at most 16 bits, so at    *)
(* most 16 + 7 bits are ever buffered and the accumulator stays below      *)
(* 2^23: no 32-bit wrap can happen, and none is modelled.                  *)
(***************************************************************************)
NewBitStreamer(data, oob) ==
    [data |-> data, oob |-> oob, byte_pos |-> 0, bit_buf |-> 0, bit_in_buf |-> 0,
     ub |-> FALSE, crashed |-> FALSE]

reset(bs) == [bs EXCEPT !.byte_pos = 0, !.bit_buf = 0, !.bit_in_buf = 0]

eof(bs) == bs.bit_in_buf = 0 /\ bs.byte_pos = Len(bs.data)

\* the while loop of GetDataBits: pull bytes until `need` bits are buffered
RECURSIVE FillBits(_, _)
FillBits(bs, need) ==
    IF bs.crashed THEN [bs |-> bs, ok |-> FALSE]
    ELSE IF bs.bit_in_buf >= need THEN [bs |-> bs, ok |-> TRUE]
    ELSE IF eof(bs) THEN [bs |-> bs, ok |-> FALSE]
    ELSE IF bs.byte_pos < Len(bs.data)
         THEN FillBits([bs EXCEPT
                  !.bit_buf = BitOr(bs.bit_buf, Shl(bs.data[bs.byte_pos + 1], bs.bit_in_buf)),
                  !.bit_in_buf = bs.bit_in_buf + 8,
                  !.byte_pos = bs.byte_pos + 1], need)
    ELSE IF bs.byte_pos - Len(bs.data) < Len(bs.oob)
         THEN FillBits([bs EXCEPT
                  !.bit_buf = BitOr(bs.bit_buf,
                                    Shl(bs.oob[bs.byte_pos - Len(bs.data) + 1], bs.bit_in_buf)),
                  !.bit_in_buf = bs.bit_in_buf + 8,
                  !.byte_pos = bs.byte_pos + 1,
                  !.ub = TRUE], need)
    ELSE [bs |-> [bs EXCEPT !.ub = TRUE, !.crashed = TRUE], ok |-> FALSE]

\* what GetDataBits returns once the loop has ended with outcome f
TakeBits(f, need) ==
    IF ~f.ok THEN [bs |-> f.bs, has |-> FALSE, v |-> 0]
    ELSE [bs |-> [f.bs EXCEPT !.bit_buf = Shr(f.bs.bit_buf, need),
                               !.bit_in_buf = f.bs.bit_in_buf - need],
          has |-> TRUE,
          v |-> LowBits(f.bs.bit_buf, need)]

\* Bits for the data processed LSB->MSB
GetDataBits(bs, need) == TakeBits(FillBits(bs, need), need)

GetBit(bs) == GetDataBits(bs, 1)

\* Bits for the Huffman code lookup are processed MSB->LSB
RECURSIVE HuffmanLoop(_, _, _, _)
\* faulty variant: the bits are packed first bit lowest
HuffmanBit_FirstBitLowest(bit, need, n, v) ==
    IF ~bit.has THEN [bs |-> bit.bs, has |-> FALSE, v |-> 0]
    ELSE HuffmanLoop(bit.bs, need, n + 1, v + Shl(bit.v, n))

\* the body of the loop, bit being what GetBit() returned
HuffmanBit(bit, need, n, v) ==
    IF ~bit.has THEN [bs |-> bit.bs, has |-> FALSE, v |-> 0]
    ELSE HuffmanLoop(bit.bs, need, n + 1, Shl(v, 1) + bit.v)

HuffmanLoop(bs, need, n, v) ==
    IF n >= need THEN [bs |-> bs, has |-> TRUE, v |-> v]
    ELSE HuffmanBit(GetBit(bs), need, n, v)

GetHuffmanBits(bs, need) == HuffmanLoop(bs, need, 0, 0)

RECURSIVE SkipLoop(_, _)
SkipLoop(bs, n) ==
    IF eof(bs) \/ n <= 0 THEN bs ELSE SkipLoop(GetBit(bs).bs, n - 1)

\* faulty variant: an empty accumulator is not tested for
SkipUntilByteBoundary_NoEmptyTest(bs) ==
    IF bs.bit_in_buf = 8 THEN bs
    ELSE SkipLoop(bs, IF bs.bit_in_buf = 0 THEN 8 ELSE bs.bit_in_buf)

SkipUntilByteBoundary(bs) ==
    IF bs.bit_in_buf = 0 \/ bs.bit_in_buf = 8 THEN bs
    ELSE SkipLoop(bs, bs.bit_in_buf)

\* unread bits: buffered bits plus unread bytes
UnreadBits(bs) == bs.bit_in_buf + 8 * (Len(bs.data) - bs.byte_pos)

(***************************************************************************)
(* mini_deflate::detail: constants and tables                              *)
(***************************************************************************)
MAX_BITS == 15
SYMBOL_LITERAL_FIRST == 0
SYMBOL_LITERAL_LAST == 255
SYMBOL_EOS == 256
SYMBOL_REPEAT_FIRST == 257
SYMBOL_REPEAT_LAST == 285

\* tables are indexed from 0 in the source: table[n] is At(table, n)
At(table, n) == table[n + 1]

repeat_offset_base ==
    <<3, 4, 5, 6, 7, 8, 9, 10, 11, 13, 15, 17, 19, 23, 27, 31, 35, 43, 51, 59,
      67, 83, 99, 115, 131, 163, 195, 227, 258>>
repeat_extra_bits ==
    <<0, 0, 0, 0, 0, 0, 0, 0, 1, 1, 1, 1, 2, 2, 2, 2, 3, 3, 3, 3,
      4, 4, 4, 4, 5, 5, 5, 5, 0>>
dist_base ==
    <<1, 2, 3, 4, 5, 7, 9, 13, 17, 25, 33, 49, 65, 97, 129, 193, 257, 385, 513, 769,
      1025, 1537, 2049, 3073, 4097, 6145, 8193, 12289, 16385, 24577>>
dist_bits ==
    <<0, 0, 0, 0, 1, 1, 2, 2, 3, 3, 4, 4, 5, 5, 6, 6, 7, 7, 8, 8,
      9, 9, 10, 10, 11, 11, 12, 12, 13, 13>>
codelen_order == <<16, 17, 18, 0, 8, 7, 9, 6, 10, 5, 11, 4, 12, 3, 13, 2, 14, 1, 15>>

(***************************************************************************)
(* detail::BuildCodeTree: the canonical Huffman tree of a code-length      *)
(* vector cl (cl[i+1] is the length of symbol i).                          *)
(*                                                                         *)
(* bl_count has MAX_BITS entries, 0 .. MAX_BITS-1, and entry 0 counts the  *)
(* absent symbols.  bl_count[cl]++ with cl >= MAX_BITS writes outside the  *)
(* table (table_ub); the loop of step 2 never reads that count.            *)
(***************************************************************************)
bl_count(cl) ==
    [len \in 0 .. MAX_BITS - 1 |-> Cardinality({i \in 1 .. Len(cl) : cl[i] = len})]

RECURSIVE NextCodeFrom(_, _)
\* the value of `code` after the loop of step 2 has run for 1 .. bits
NextCodeFrom(blc, bits) ==
    IF bits = 0 THEN 0
    ELSE Shl(NextCodeFrom(blc, bits - 1) + blc[bits - 1], 1)

next_code(cl) ==
    LET blc == bl_count(cl) IN
    [bits \in 0 .. MAX_BITS |-> IF bits = 0 THEN 0 ELSE NextCodeFrom(blc, bits)]

TreeMinBits(cl) ==
    LET nz == {cl[i] : i \in {j \in 1 .. Len(cl) : cl[j] # 0}} IN
    IF nz = {} THEN MAX_BITS + 1 ELSE CHOOSE m \in nz : \A k \in nz : m <= k

TreeMaxBits(cl) ==
    LET nz == {cl[i] : i \in {j \in 1 .. Len(cl) : cl[j] # 0}} IN
    IF nz = {} THEN -1 ELSE CHOOSE m \in nz : \A k \in nz : m >= k

\* faulty variant: the code is not masked to its length
BuildCodeTree_NoMask(cl) ==
    LET nc == next_code(cl) IN
    [min_bits |-> TreeMinBits(cl),
     max_bits |-> TreeMaxBits(cl),
     table_ub |-> \E i \in 1 .. Len(cl) : cl[i] >= MAX_BITS,
     nodes |-> [n \in 1 .. Len(cl) |->
        IF cl[n] = 0
        THEN [symbol |-> n - 1, length |-> 0, code |-> 0]
        ELSE [symbol |-> n - 1,
              length |-> cl[n],
              code |-> nc[cl[n]] + Cardinality({m \in 1 .. n - 1 : cl[m] = cl[n]})]]]

BuildCodeTree(cl) ==
    LET nc == next_code(cl) IN
    [min_bits |-> TreeMinBits(cl),
     max_bits |-> TreeMaxBits(cl),
     table_ub |-> \E i \in 1 .. Len(cl) : cl[i] >= MAX_BITS,
     nodes |-> [n \in 1 .. Len(cl) |->
        IF cl[n] = 0
        THEN [symbol |-> n - 1, length |-> 0, code |-> 0]
        ELSE [symbol |-> n - 1,
              length |-> cl[n],
              \* next_code[len] has been incremented once per earlier symbol of that length
              code |-> LowBits(nc[cl[n]] + Cardinality({m \in 1 .. n - 1 : cl[m] = cl[n]}),
                               cl[n])]]]

\* Default length tree (used for 'fixed huffman tree' blocks)
FixedLengthTree ==
    BuildCodeTree([n \in 1 .. 288 |->
        IF n - 1 <= 143 THEN 8
        ELSE IF n - 1 <= 255 THEN 9
        ELSE IF n - 1 <= 279 THEN 7
        ELSE 8])

\* Default distance tree (used for 'fixed huffman tree' blocks)
FixedDistanceTree == BuildCodeTree([n \in 1 .. 30 |-> 5])

(***************************************************************************)
(* detail::GetSymbol                                                       *)
(***************************************************************************)
\* std::find_if over the nodes: the first node with that code and length, 0 when none
FindNode(tree, cur_code, cur_bits) ==
    LET hits == {i \in 1 .. Len(tree.nodes) :
                    tree.nodes[i].code = cur_code /\ tree.nodes[i].length = cur_bits}
    IN IF hits = {} THEN 0 ELSE CHOOSE i \in hits : \A j \in hits : i <= j

RECURSIVE SymbolLoop(_, _, _, _)
\* "No symbol found, add one more bit and try again", bit being what GetBit() returned
SymbolBit(bit, tree, cur_code, cur_bits) ==
    IF ~bit.has THEN [bs |-> bit.bs, result |-> "EndOfStream", symbol |-> 0]
    ELSE SymbolLoop(bit.bs, tree, Shl(cur_code, 1) + bit.v, cur_bits + 1)

\* the body of the loop, it being what std::find_if returned
SymbolAt(bs, tree, it, cur_code, cur_bits) ==
    IF it # 0 THEN [bs |-> bs, result |-> "OK", symbol |-> tree.nodes[it].symbol]
    ELSE IF cur_bits = tree.max_bits
         THEN [bs |-> bs, result |-> "CorruptSymbol", symbol |-> 0]
    ELSE SymbolBit(GetBit(bs), tree, cur_code, cur_bits)

SymbolLoop(bs, tree, cur_code, cur_bits) ==
    SymbolAt(bs, tree, FindNode(tree, cur_code, cur_bits), cur_code, cur_bits)

\* hb is what GetHuffmanBits(tree.min_bits) returned
SymbolFrom(hb, tree) ==
    IF ~hb.has THEN [bs |-> hb.bs, result |-> "EndOfStream", symbol |-> 0]
    ELSE SymbolLoop(hb.bs, tree, hb.v, tree.min_bits)

GetSymbol(bs, tree) == SymbolFrom(GetHuffmanBits(bs, tree.min_bits), tree)

(***************************************************************************)
(* detail::ConstructDynamicTrees                                           *)
(***************************************************************************)
\* for(n < hclen) code_lengths[codelen_order[n]] = GetDataBits(3).value_or(0)
RECURSIVE ReadCodeLengths(_, _, _, _)
\* b is what GetDataBits(3) returned
StoreCodeLength(b, hclen, n, code_lengths) ==
    ReadCodeLengths(b.bs, hclen, n + 1,
                    [code_lengths EXCEPT ![At(codelen_order, n) + 1] = ValueOr(b, 0)])

ReadCodeLengths(bs, hclen, n, code_lengths) ==
    IF n >= hclen THEN [bs |-> bs, code_lengths |-> code_lengths]
    ELSE StoreCodeLength(GetDataBits(bs, 3), hclen, n, code_lengths)

Repeat(n, x) == [i \in 1 .. n |-> x]

\* while(bl_count.size() < hlit + hdist): decode one code-length symbol, expand runs
RECURSIVE ReadLengths(_, _, _, _)
\* a run: r is what GetDataBits returned for its length, x the length repeated
\* faulty variant: the run is as long as its data bits say, the least count left out
RepeatLengths_NoLeast(r, code_tree, total, lens, least, x) ==
    ReadLengths(r.bs, code_tree, total, lens \o Repeat(ValueOr(r, 0), x))

RepeatLengths(r, code_tree, total, lens, least, x) ==
    ReadLengths(r.bs, code_tree, total, lens \o Repeat(ValueOr(r, 0) + least, x))

\* the body of the loop, s being what GetSymbol returned
LengthSymbol(s, code_tree, total, lens) ==
    IF s.result # "OK" THEN [bs |-> s.bs, result |-> s.result, lens |-> lens]
    ELSE IF s.symbol >= 0 /\ s.symbol <= 15
         THEN ReadLengths(s.bs, code_tree, total, Append(lens, s.symbol))
    ELSE IF s.symbol = 16
         THEN IF lens = <<>>
              THEN [bs |-> s.bs, result |-> "InvalidDynamicReference", lens |-> lens]
              ELSE RepeatLengths(GetDataBits(s.bs, 2), code_tree, total, lens,
                                 3, lens[Len(lens)])
    ELSE IF s.symbol = 17
         THEN RepeatLengths(GetDataBits(s.bs, 3), code_tree, total, lens, 3, 0)
    ELSE IF s.symbol = 18
         THEN RepeatLengths(GetDataBits(s.bs, 7), code_tree, total, lens, 11, 0)
    ELSE ReadLengths(s.bs, code_tree, total, lens)

ReadLengths(bs, code_tree, total, lens) ==
    IF Len(lens) >= total THEN [bs |-> bs, result |-> "OK", lens |-> lens]
    ELSE LengthSymbol(GetSymbol(bs, code_tree), code_tree, total, lens)

\* "Create the trees from the lengths", r being what the loop over the lengths left
TreesFromLengths(r, hlit, hdist) ==
    IF r.result # "OK"
    THEN [bs |-> r.bs, result |-> r.result, hlit |-> hlit, hdist |-> hdist,
          len_tree |-> BuildCodeTree(<<>>), dist_tree |-> BuildCodeTree(<<>>)]
    ELSE [bs |-> r.bs, result |-> "OK", hlit |-> hlit, hdist |-> hdist,
          len_tree |-> BuildCodeTree(SubSeq(r.lens, 1, hlit)),
          dist_tree |-> BuildCodeTree(SubSeq(r.lens, hlit + 1, Len(r.lens)))]

\* cls is what the loop over the code-length code lengths left
DynamicLengths(cls, hlit, hdist) ==
    TreesFromLengths(ReadLengths(cls.bs, BuildCodeTree(cls.code_lengths), hlit + hdist, <<>>),
                     hlit, hdist)

\* b3 is what GetDataBits(4) returned: hclen = value_or(0) + 4
DynamicHclen(b3, hlit, hdist) ==
    DynamicLengths(ReadCodeLengths(b3.bs, ValueOr(b3, 0) + 4, 0,
                                   [i \in 1 .. Len(codelen_order) |-> 0]),
                   hlit, hdist)

\* b2 is what the second GetDataBits(5) returned: hdist = value_or(0) + 1
DynamicHdist(b2, hlit) == DynamicHclen(GetDataBits(b2.bs, 4), hlit, ValueOr(b2, 0) + 1)

\* b1 is what the first GetDataBits(5) returned: hlit = value_or(0) + 257
DynamicHlit(b1) == DynamicHdist(GetDataBits(b1.bs, 5), ValueOr(b1, 0) + 257)

ConstructDynamicTrees(bs) == DynamicHlit(GetDataBits(bs, 5))

(***************************************************************************)
(* detail::DecompressBlock.  output is the vector the caller passes in.    *)
(* A distance symbol outside the 30-entry tables indexes them out of       *)
(* range: the decode has no defined outcome from there ("Undefined").      *)
(***************************************************************************)
\* for(n < total_length) output.push_back(output[pos]), pos++
\* faulty variant: pos is not advanced
CopyLoop_SamePos(output, pos, n) == output \o [i \in 1 .. n |-> output[pos + 1]]

RECURSIVE CopyLoop(_, _, _)
CopyLoop(output, pos, n) ==
    IF n <= 0 THEN output ELSE CopyLoop(Append(output, output[pos + 1]), pos + 1, n - 1)

\* output.size() < dist
DistanceCorrupt(output, dist) == Len(output) < dist

RECURSIVE DecompressBlock(_, _, _, _)
\* the copy of total_length bytes from dist bytes back
RepeatCopy(bs, dist, total_length, len_tree, dist_tree, output) ==
    IF DistanceCorrupt(output, dist)
    THEN [bs |-> bs, result |-> "CorruptDistance", output |-> output]
    ELSE DecompressBlock(bs, len_tree, dist_tree,
                         CopyLoop(output, Len(output) - dist, total_length))

\* x is what GetDataBits(dist_bits[d_symbol]) returned
RepeatDistBits(x, d_symbol, total_length, len_tree, dist_tree, output) ==
    RepeatCopy(x.bs, At(dist_base, d_symbol) + ValueOr(x, 0), total_length,
               len_tree, dist_tree, output)

\* d is what GetSymbol(bs, dist_tree) returned
RepeatDistance(d, total_length, len_tree, dist_tree, output) ==
    IF d.result # "OK" THEN [bs |-> d.bs, result |-> d.result, output |-> output]
    ELSE IF d.symbol >= Len(dist_base)
         THEN [bs |-> d.bs, result |-> "Undefined", output |-> output]
    ELSE RepeatDistBits(GetDataBits(d.bs, At(dist_bits, d.symbol)), d.symbol, total_length,
                        len_tree, dist_tree, output)

\* e is what GetDataBits(repeat_extra_bits[n]) returned
RepeatLength(e, n, len_tree, dist_tree, output) ==
    RepeatDistance(GetSymbol(e.bs, dist_tree), At(repeat_offset_base, n) + ValueOr(e, 0),
                   len_tree, dist_tree, output)

\* the body of the loop, s being what GetSymbol(bs, len_tree) returned
BlockSymbol(s, len_tree, dist_tree, output) ==
    IF s.result # "OK" THEN [bs |-> s.bs, result |-> s.result, output |-> output]
    ELSE IF s.symbol = SYMBOL_EOS THEN [bs |-> s.bs, result |-> "OK", output |-> output]
    ELSE IF s.symbol >= SYMBOL_LITERAL_FIRST /\ s.symbol <= SYMBOL_LITERAL_LAST
         THEN DecompressBlock(s.bs, len_tree, dist_tree,
                              Append(output, (s.symbol - SYMBOL_LITERAL_FIRST) % 256))
    ELSE IF s.symbol >= SYMBOL_REPEAT_FIRST /\ s.symbol <= SYMBOL_REPEAT_LAST
         THEN RepeatLength(GetDataBits(s.bs, At(repeat_extra_bits,
                                                 s.symbol - SYMBOL_REPEAT_FIRST)),
                           s.symbol - SYMBOL_REPEAT_FIRST, len_tree, dist_tree, output)
    ELSE [bs |-> s.bs, result |-> "InvalidSymbol", output |-> output]

DecompressBlock(bs, len_tree, dist_tree, output) ==
    BlockSymbol(GetSymbol(bs, len_tree), len_tree, dist_tree, output)

(***************************************************************************)
(* mini_deflate::Decompress                                                *)
(***************************************************************************)
\* the getLength lambda of the stored-block case: v and w are the two GetDataBits(8)
LengthOf(v, w) ==
    IF ~v.has \/ ~w.has THEN [bs |-> w.bs, has |-> FALSE, v |-> 0]
    ELSE [bs |-> w.bs, has |-> TRUE, v |-> BitOr(v.v, Shl(w.v, 8)) % 65536]

LengthHigh(v) == LengthOf(v, GetDataBits(v.bs, 8))

getLength(bs) == LengthHigh(GetDataBits(bs, 8))

\* for(n = len; n > 0; n--) output.push_back(GetDataBits(8))
RECURSIVE ReadStored(_, _, _)
\* c is what GetDataBits(8) returned
StoredByte(c, n, output) ==
    IF ~c.has THEN [bs |-> c.bs, result |-> "EndOfStream", output |-> output]
    ELSE ReadStored(c.bs, n - 1, Append(output, c.v % 256))

ReadStored(bs, n, output) ==
    IF n <= 0 THEN [bs |-> bs, result |-> "OK", output |-> output]
    ELSE StoredByte(GetDataBits(bs, 8), n, output)

\* len and nlen are what the two getLength() calls returned
StoredData(len, nlen) ==
    IF ~len.has \/ ~nlen.has
    THEN [bs |-> nlen.bs, result |-> "EndOfStream", output |-> <<>>]
    ELSE IF (65535 - len.v) # nlen.v
    THEN [bs |-> nlen.bs, result |-> "LengthCorrupt", output |-> <<>>]
    ELSE ReadStored(nlen.bs, len.v, <<>>)

StoredNlen(len) == StoredData(len, getLength(len.bs))

\* case 0: no compression
StoredBlock(bs) == StoredNlen(getLength(SkipUntilByteBoundary(bs)))

\* t is what ConstructDynamicTrees returned
DynamicData(t) ==
    IF t.result # "OK" THEN [bs |-> t.bs, result |-> t.result, output |-> <<>>]
    ELSE DecompressBlock(t.bs, t.len_tree, t.dist_tree, <<>>)

\* case 2: dynamic huffman codes
DynamicBlock(bs) == DynamicData(ConstructDynamicTrees(bs))

\* the test `if (bfinal)` that ends the block loop: bfinal is a std::optional<int>,
\* and in a condition an optional converts to has_value()
LoopEnds(bfinal) == bfinal.has

\* switch(*btype)
BlockOfType(bs, btype) ==
    CASE btype = 0 -> StoredBlock(bs)
      [] btype = 1 -> DecompressBlock(bs, FixedLengthTree, FixedDistanceTree, <<>>)
      [] btype = 2 -> DynamicBlock(bs)
      [] OTHER -> [bs |-> bs, result |-> "InvalidBlockType", output |-> <<>>]

\* what follows the switch: the error return, or callbackFn(output) and the break test
AfterBlock(blk, bfinal, btype) ==
    IF blk.result # "OK"
    THEN [bs |-> blk.bs, result |-> blk.result, emitted |-> FALSE,
          output |-> <<>>, bfinal |-> bfinal.v, btype |-> btype.v]
    ELSE [bs |-> blk.bs,
          result |-> IF LoopEnds(bfinal) THEN "OK" ELSE "",
          emitted |-> TRUE, output |-> blk.output,
          bfinal |-> bfinal.v, btype |-> btype.v]

\* bfinal and btype are what GetDataBits(1) and GetDataBits(2) returned
BlockHeader(bfinal, btype) ==
    IF ~bfinal.has \/ ~btype.has
    THEN [bs |-> btype.bs, result |-> "EndOfStream", emitted |-> FALSE, output |-> <<>>,
          bfinal |-> 0, btype |-> 0]
    ELSE AfterBlock(BlockOfType(btype.bs, btype.v), bfinal, btype)

BlockType(bfinal) == BlockHeader(bfinal, GetDataBits(bfinal.bs, 2))

\* One iteration of the while(true) loop: the block header, the block, the callback.
\*   result   the value returned, "" when the function has not returned
\*   emitted  whether callbackFn(output) was called
DecompressIteration(bs) == BlockType(GetDataBits(bs, 1))

\* The whole function: the fragments passed to callbackFn, in order, and the result.
RECURSIVE DecompressFrom(_, _)
\* it is what one iteration did
AfterIteration(it, frags) ==
    IF it.result # ""
    THEN [bs |-> it.bs, result |-> it.result,
          frags |-> IF it.emitted THEN Append(frags, it.output) ELSE frags]
    ELSE DecompressFrom(it.bs, IF it.emitted THEN Append(frags, it.output) ELSE frags)

DecompressFrom(bs, frags) == AfterIteration(DecompressIteration(bs), frags)

Decompress(bs) == DecompressFrom(bs, <<>>)

(***************************************************************************)
(* Byte streams: mini_png::ByteStreamer, and the MemoryStreamer of the     *)
(* zlib tests.  A stream is its data and a position; an operation returns  *)
(* the new position with its value.                                        *)
(***************************************************************************)
StreamEof(data, pos) == pos >= Len(data)

GetByte(data, pos) ==
    IF StreamEof(data, pos) THEN [pos |-> pos, has |-> FALSE, v |-> 0]
    ELSE [pos |-> pos + 1, has |-> TRUE, v |-> data[pos + 1]]

Skip(pos, length) == AddSize(pos, length)

(***************************************************************************)
(* mini_adler32                                                            *)
(***************************************************************************)
base == 65521
initial_Adler32 == W32(0, 1)

ReadChecksum(data, pos) ==
    LET c1 == GetByte(data, pos)
        c2 == GetByte(data, c1.pos)
        c3 == GetByte(data, c2.pos)
        c4 == GetByte(data, c3.pos)
    IN IF ~c4.has THEN [pos |-> c4.pos, has |-> FALSE, v |-> W32(0, 0)]
       ELSE [pos |-> c4.pos, has |-> TRUE,
             v |-> W32(ValueOr(c1, 0) * 256 + ValueOr(c2, 0), ValueOr(c3, 0) * 256 + c4.v)]

\* faulty variant: s2 takes s1 as it was before the byte was added
AdlerByte_OldS1(s1, s2, b) == W32((s2 + s1) % base, (s1 + b) % base)

\* the loop body: s1 = (s1 + *first) % base; s2 = (s2 + s1) % base
AdlerByte(s1, s2, b) == W32((s2 + ((s1 + b) % base)) % base, (s1 + b) % base)

\* the iterations for bytes[lo .. hi], in order: those of the lower half of
\* the range, then those of the upper half from the values the lower left
RECURSIVE AdlerRange(_, _, _, _, _)
\* comparing v makes TLC evaluate the lower half before it enters the upper
AdlerRest(v, bytes, lo, hi) ==
    IF v.lo >= 0 THEN AdlerRange(v.lo, v.hi, bytes, lo, hi) ELSE v
AdlerRange(s1, s2, bytes, lo, hi) ==
    IF lo > hi THEN W32(s2, s1)
    ELSE IF lo = hi THEN AdlerByte(s1, s2, bytes[lo])
    ELSE AdlerRest(AdlerRange(s1, s2, bytes, lo, (lo + hi) \div 2),
                   bytes, (lo + hi) \div 2 + 1, hi)

\* for (; first != last; ++first), from the i-th byte on
AdlerLoop(s1, s2, bytes, i) == AdlerRange(s1, s2, bytes, i, Len(bytes))

\* faulty variant: every Update starts from the initial value
Update_FromInitial(value, bytes) == AdlerLoop(1, 0, bytes, 1)

\* Adler32::Update: value is the checksum so far
Update(value, bytes) == AdlerLoop(value.lo, value.hi, bytes, 1)

(***************************************************************************)
(* mini_zlib::Decompress(s, length, callback) on the stream (data, pos).   *)
(* oob is what follows compressedData in memory, for the BitStreamer.      *)
(***************************************************************************)
compressionMethod_deflate == 8
flag_FDICT == 32

\* for(n = 2 + sizeof(Value); n < length; n++) compressedData.push_back(GetByte())
RECURSIVE ReadCompressed(_, _, _, _, _)
\* v is what GetByte() returned
CompressedByte(data, v, n, length, acc) ==
    IF ~v.has THEN [pos |-> v.pos, ok |-> FALSE, bytes |-> acc]
    ELSE ReadCompressed(data, v.pos, n + 1, length, Append(acc, v.v))

ReadCompressed(data, pos, n, length, acc) ==
    IF n >= length THEN [pos |-> pos, ok |-> TRUE, bytes |-> acc]
    ELSE CompressedByte(data, GetByte(data, pos), n, length, acc)

RECURSIVE AdlerOver(_, _, _)
\* the callback of Decompress: adler.Update on each fragment, in order
AdlerOver(value, frags, i) ==
    IF i > Len(frags) THEN value ELSE AdlerOver(Update(value, frags[i]), frags, i + 1)

\* faulty variant: the trailer is not compared
ZlibVerdict_NoCompare(deflate_result, adler, checksum) ==
    IF deflate_result # "OK" THEN "ChecksumError" ELSE "OK"

\* the two tests that follow the DEFLATE decode
ZlibVerdict(deflate_result, adler, checksum) ==
    IF deflate_result # "OK" THEN "ChecksumError"
    ELSE IF adler # checksum THEN "ChecksumError"
    ELSE "OK"

\* the number of bytes skipped for the preset dictionary id
DictSkip(flg) == IF (flg \div flag_FDICT) % 2 = 1 THEN 4 ELSE 0

ZlibEarly(pos, result) ==
    [pos |-> pos, result |-> result, frags |-> <<>>, deflate |-> "", header_ok |-> FALSE,
     adler |-> initial_Adler32, checksum |-> W32(0, 0), crashed |-> FALSE]

\* d is what mini_deflate::Decompress returned, adler the value the callback left
ZlibResult(d, adler, checksum, pos) ==
    [pos |-> pos,
     result |-> IF d.bs.crashed \/ d.result = "Undefined" THEN "Undefined"
                ELSE ZlibVerdict(d.result, adler, checksum),
     frags |-> d.frags,
     deflate |-> d.result,
     header_ok |-> TRUE,
     adler |-> adler,
     checksum |-> checksum,
     crashed |-> d.bs.crashed]

ZlibDeflated(d, checksum, pos) ==
    ZlibResult(d, AdlerOver(initial_Adler32, d.frags, 1), checksum, pos)

\* checksum is what ReadChecksum returned
ZlibInflate(cd, checksum, oob) ==
    IF ~checksum.has
    THEN [ZlibEarly(checksum.pos, "PrematureEndOfStream") EXCEPT !.header_ok = TRUE]
    ELSE ZlibDeflated(Decompress(NewBitStreamer(cd.bytes, oob)), checksum.v, checksum.pos)

\* cd is what the loop that fills compressedData left
ZlibTrailer(data, cd, oob) ==
    IF ~cd.ok
    THEN [ZlibEarly(cd.pos, "PrematureEndOfStream") EXCEPT !.header_ok = TRUE]
    ELSE ZlibInflate(cd, ReadChecksum(data, cd.pos), oob)

\* faulty variant: the header check is tested before the compression method
ZlibHeader_CheckFirst(data, cmf, flg, length, oob) ==
    IF ~cmf.has \/ ~flg.has THEN ZlibEarly(flg.pos, "PrematureEndOfStream")
    ELSE IF (cmf.v * 256 + flg.v) % 31 # 0
    THEN ZlibEarly(flg.pos, "HeaderChecksumError")
    ELSE IF cmf.v % 16 # compressionMethod_deflate
    THEN ZlibEarly(flg.pos, "UnsupportedCompressionMethod")
    ELSE ZlibTrailer(data,
                     ReadCompressed(data, Skip(flg.pos, DictSkip(flg.v)), 2 + 4, length, <<>>),
                     oob)

\* cmf and flg are what the two GetByte() calls returned
ZlibHeader(data, cmf, flg, length, oob) ==
    IF ~cmf.has \/ ~flg.has THEN ZlibEarly(flg.pos, "PrematureEndOfStream")
    ELSE IF cmf.v % 16 # compressionMethod_deflate
    THEN ZlibEarly(flg.pos, "UnsupportedCompressionMethod")
    ELSE IF (cmf.v * 256 + flg.v) % 31 # 0
    THEN ZlibEarly(flg.pos, "HeaderChecksumError")
    ELSE ZlibTrailer(data,
                     ReadCompressed(data, Skip(flg.pos, DictSkip(flg.v)), 2 + 4, length, <<>>),
                     oob)

ZlibFlg(data, cmf, length, oob) == ZlibHeader(data, cmf, GetByte(data, cmf.pos), length, oob)

ZlibDecompress(data, pos, length, oob) == ZlibFlg(data, GetByte(data, pos), length, oob)

(***************************************************************************)
(* mini_png: ByteStreamer::Get, chunk headers, chunk types                 *)
(***************************************************************************)
png_signature == <<137, 80, 78, 71, 13, 10, 26, 10>>

\* Get<Value> for a 4-byte Value: network order
RECURSIVE Get32Loop(_, _, _, _)
\* b is what GetByte() returned
Get32Byte(data, b, n, v) ==
    IF ~b.has THEN [pos |-> b.pos, has |-> FALSE, v |-> W32(0, 0)]
    ELSE Get32Loop(data, b.pos, n + 1, ShlOr8(v, b.v))

Get32Loop(data, pos, n, v) ==
    IF n >= 4 THEN [pos |-> pos, has |-> TRUE, v |-> v]
    ELSE Get32Byte(data, GetByte(data, pos), n, v)

Get32(data, pos) == Get32Loop(data, pos, 0, W32(0, 0))

\* Get<Value> for a 1-byte Value
Get8(data, pos) == GetByte(data, pos)

\* chunk_types::FromIdentifier
FromIdentifier(id) == W32(id[1] * 256 + id[2], id[3] * 256 + id[4])
type_IHDR == FromIdentifier(<<73, 72, 68, 82>>)
type_IDAT == FromIdentifier(<<73, 68, 65, 84>>)
type_IEND == FromIdentifier(<<73, 69, 78, 68>>)

\* ((type >> 24) & 0x20) != 0
IsAncillary(type) == ((type.hi \div 256) \div 32) % 2 = 1

\* l and t are what Get<field::Length>() and Get<field::ChunkType>() returned
HeaderOf(l, t) ==
    [pos |-> t.pos, ok |-> l.has /\ t.has, length |-> ToSize(l.v), type |-> t.v]

HeaderType(data, l) == HeaderOf(l, Get32(data, l.pos))

\* Chunk::ReadHeader: both fields are read, then tested
ReadHeader(data, pos) == HeaderType(data, Get32(data, pos))

\* faulty variant: the checksum is not skipped
ChunkSkip_NoChecksum(pos, length) == Skip(pos, length)

\* Chunk::Skip: bs.Skip(length + sizeof(field::Checksum))
ChunkSkip(pos, length) == Skip(pos, AddSize(length, 4))

(***************************************************************************)
(* field::checks, ImageHeader, ParseImageHeader                            *)
(***************************************************************************)
\* h <= (1UL << 31) - 1
IsHeightValid(h) == h.hi <= 32767
\* faulty variant: 2^31 passes
IsWidthValid_UpTo2Pow31(v) == v.hi <= 32767 \/ (v.hi = 32768 /\ v.lo = 0)

IsWidthValid(v) == v.hi <= 32767

IsColorTypeAndBitDepthCombinationValid(ct, bd) ==
    CASE ct = 0 -> bd \in {1, 2, 4, 8, 16}
      [] ct = 3 -> bd \in {1, 2, 4, 8}
      [] ct \in {2, 4, 6} -> bd \in {8, 16}
      [] OTHER -> FALSE

NoHeader ==
    [width |-> W32(0, 0), height |-> W32(0, 0), bitDepth |-> 0, colorType |-> 0,
     compressionMethod |-> 0, filterMethod |-> 0, interlaceMethod |-> 0]

GetBytesPerPixel(ihdr) ==
    LET samplesPerPixel == CASE ihdr.colorType = 2 -> 3
                             [] ihdr.colorType = 3 -> 1
                             [] ihdr.colorType = 4 -> 2
                             [] ihdr.colorType = 6 -> 4
                             [] OTHER -> 1
    IN samplesPerPixel * (ihdr.bitDepth \div 8)

\* the checks of ParseImageHeader, in the order the code makes them
HeaderVerdict(ihdr) ==
    IF ~IsWidthValid(ihdr.width) THEN "InvalidWidth"
    ELSE IF ~IsHeightValid(ihdr.height) THEN "InvalidHeight"
    ELSE IF ~IsColorTypeAndBitDepthCombinationValid(ihdr.colorType, ihdr.bitDepth)
         THEN "InvalidColorTypeAndBitDepthCombination"
    ELSE IF ihdr.compressionMethod # 0 THEN "UnsupportedCompressionMethod"
    ELSE IF ihdr.filterMethod # 0 THEN "UnsupportedFilterMethod"
    ELSE IF ihdr.interlaceMethod # 0 THEN "UnsupportedInterlaceMethod"
    ELSE "OK"

\* sizeof of the seven fields of ImageHeader, in the order they are read
ihdr_fields == <<4, 4, 1, 1, 1, 1, 1>>

\* the seven bs.Get<...>() calls, each from where the one before left the stream:
\* the values read, whether each was there, and the position afterwards
RECURSIVE ReadFields(_, _, _, _)
FieldRead(data, f, i, acc) ==
    ReadFields(data, f.pos, i + 1, [v |-> Append(acc.v, f.v), has |-> Append(acc.has, f.has)])

ReadFields(data, pos, i, acc) ==
    IF i > Len(ihdr_fields) THEN [pos |-> pos, v |-> acc.v, has |-> acc.has]
    ELSE FieldRead(data,
                   IF ihdr_fields[i] = 4 THEN Get32(data, pos) ELSE Get8(data, pos),
                   i, acc)

HeaderFrom(v) ==
    [width |-> v[1], height |-> v[2], bitDepth |-> v[3], colorType |-> v[4],
     compressionMethod |-> v[5], filterMethod |-> v[6], interlaceMethod |-> v[7]]

\* the header is checked, and its checksum skipped when it passes
HeaderChecked(pos, ihdr, verdict) ==
    IF verdict # "OK" THEN [pos |-> pos, result |-> verdict, ihdr |-> ihdr]
    ELSE [pos |-> Skip(pos, 4), result |-> "OK", ihdr |-> ihdr]

HeaderRead(f) ==
    IF \E i \in 1 .. Len(f.has) : ~f.has[i]
    THEN [pos |-> f.pos, result |-> "PrematureEndOfFile", ihdr |-> NoHeader]
    ELSE HeaderChecked(f.pos, HeaderFrom(f.v), HeaderVerdict(HeaderFrom(f.v)))

ParseImageHeader(data, pos) ==
    HeaderRead(ReadFields(data, pos, 1, [v |-> <<>>, has |-> <<>>]))

(***************************************************************************)
(* PaethPredictor and DecodeContext                                        *)
(***************************************************************************)
Abs(x) == IF x < 0 THEN -x ELSE x

\* faulty variant: a tie is broken towards the later candidate
PaethPredictor_TiesToLast(a, b, c) ==
    LET p == a + b - c
        pa == Abs(p - a)
        pb == Abs(p - b)
        pc == Abs(p - c)
    IN IF pa < pb /\ pa < pc THEN a
       ELSE IF pb < pc THEN b
       ELSE c

PaethPredictor(a, b, c) ==
    LET p == a + b - c
        pa == Abs(p - a)
        pb == Abs(p - b)
        pc == Abs(p - c)
    IN IF pa <= pb /\ pa <= pc THEN a
       ELSE IF pb <= pc THEN b
       ELSE c

\* DecodeContext(ihdr), given the two values it takes from the header
NewDecodeContext(bytesPerPixel, scanLineLengthInBytes) ==
    [result |-> "OK",
     pendingData |-> <<>>,
     currentLine |-> 0,
     bytesPerPixel |-> bytesPerPixel,
     scanLineLengthInBytes |-> scanLineLengthInBytes,
     scanLine |-> <<Repeat(scanLineLengthInBytes, 0), Repeat(scanLineLengthInBytes, 0)>>]

\* scanLine[currentLine % 2], as an index from 1
CurrentIndex(ctx) == (ctx.currentLine % 2) + 1

\* faulty variant: the previous scanline is the slot being written
PreviousIndex_SameSlot(ctx) == (ctx.currentLine % 2) + 1

\* scanLine[(currentLine - 1) % 2]: currentLine is a uint32_t, and 0 - 1 is
\* 0xFFFFFFFF, which is odd
PreviousIndex(ctx) == (IF ctx.currentLine = 0 THEN 1 ELSE (ctx.currentLine - 1) % 2) + 1

\* the lambdas raw and prior: x is an int, the vectors are indexed from 0
Pixel(line, x) == IF x < 0 THEN 0 ELSE line[x + 1]

\* the value stored in currentScanLine[x] for filter type ft and filtered byte f
Defilter(ft, f, cur, prev, x, bpp) ==
    CASE ft = 1 -> (f + Pixel(cur, x - bpp)) % 256
      [] ft = 2 -> (f + Pixel(prev, x)) % 256
      [] ft = 3 -> (f + (Pixel(cur, x - bpp) + Pixel(prev, x)) \div 2) % 256
      [] ft = 4 -> (f + PaethPredictor(Pixel(cur, x - bpp), Pixel(prev, x),
                                       Pixel(prev, x - bpp))) % 256
      [] OTHER -> f

\* for(x = 0; x < scanLineLengthInBytes; x++): currentScanLine is written in place
RECURSIVE FilterLoop(_, _, _, _, _, _)
FilterLoop(ft, line, cur, prev, x, bpp) ==
    IF x >= Len(cur) THEN cur
    ELSE FilterLoop(ft, line,
                    [cur EXCEPT ![x + 1] = Defilter(ft, line[x + 2], cur, prev, x, bpp)],
                    prev, x + 1, bpp)

\* new is currentScanLine after the loop
LineFiltered(ctx, new) ==
    [ctx |-> [ctx EXCEPT !.scanLine[CurrentIndex(ctx)] = new], emitted |-> TRUE, row |-> new]

\* ProcessScanLine on the scanLineLengthInBytes + 1 bytes of `line`.
\*   emitted  whether scanLineFn(currentScanLine) was called; row is its argument
ProcessScanLine(ctx, line) ==
    IF line[1] \in 0 .. 4
    THEN LineFiltered(ctx, FilterLoop(line[1], line, ctx.scanLine[CurrentIndex(ctx)],
                                      ctx.scanLine[PreviousIndex(ctx)], 0,
                                      ctx.bytesPerPixel))
    ELSE [ctx |-> [ctx EXCEPT !.result = "UnsupportedFilterType"],
          emitted |-> FALSE, row |-> <<>>]

\* faulty variant: the filter-type byte is not counted in the length of a wire scanline
ToCopy_NoFilterByte(ctx, data) ==
    Min(ctx.scanLineLengthInBytes - Len(ctx.pendingData), Len(data))

\* std::min((scanLineLengthInBytes + 1) - pendingData.size(), data.size())
ToCopy(ctx, data) ==
    Min((ctx.scanLineLengthInBytes + 1) - Len(ctx.pendingData), Len(data))

\* r is what ProcessScanLine(pendingData) did: pendingData.clear(), ++currentLine
PendingDone(r) ==
    [ctx |-> [r.ctx EXCEPT !.pendingData = <<>>, !.currentLine = r.ctx.currentLine + 1],
     rows |-> IF r.emitted THEN <<r.row>> ELSE <<>>]

\* "Process the complete pending scanline, if we have one"
PendingStep(ctx) ==
    IF Len(ctx.pendingData) = ctx.scanLineLengthInBytes + 1
    THEN PendingDone(ProcessScanLine(ctx, ctx.pendingData))
    ELSE [ctx |-> ctx, rows |-> <<>>]

\* "Process all complete scanlines": it is the offset of dataIterator in data
RECURSIVE LinesLoop(_, _, _, _)
\* r is what ProcessScanLine did: dataIterator += scanLineLengthInBytes + 1, ++currentLine
LineDone(r, data, it, rows) ==
    LinesLoop([r.ctx EXCEPT !.currentLine = r.ctx.currentLine + 1], data,
              it + r.ctx.scanLineLengthInBytes + 1,
              IF r.emitted THEN Append(rows, r.row) ELSE rows)

LinesLoop(ctx, data, it, rows) ==
    IF ctx.result = "OK" /\ Len(data) - it >= ctx.scanLineLengthInBytes + 1
    THEN LineDone(ProcessScanLine(ctx, SubSeq(data, it + 1,
                                               it + ctx.scanLineLengthInBytes + 1)),
                  data, it, rows)
    ELSE [ctx |-> ctx, it |-> it, rows |-> rows]

\* "Store whatever is left for the next time", l being what the loop left
StoreRest(l, data) ==
    [ctx |-> [l.ctx EXCEPT !.pendingData =
                 l.ctx.pendingData \o SubSeq(data, l.it + 1, Len(data))],
     rows |-> l.rows]

\* p is what the pending scanline's step did
AfterPending(p, data, toCopy) == StoreRest(LinesLoop(p.ctx, data, toCopy, p.rows), data)

\* toCopy bytes of data complete the pending scanline
CopyPending(ctx, data, toCopy) ==
    AfterPending(PendingStep([ctx EXCEPT !.pendingData =
                                 ctx.pendingData \o SubSeq(data, 1, toCopy)]),
                 data, toCopy)

\* faulty variant: the result is not tested on entry
ProcessImageData_NoResultTest(ctx, data) ==
    CopyPending(ctx, data, IF ctx.pendingData # <<>> THEN ToCopy(ctx, data) ELSE 0)

\* DecodeContext::ProcessImageData: the context afterwards, and the rows passed to
\* scanLineFn, in order
ProcessImageData(ctx, data) ==
    IF ctx.result # "OK" THEN [ctx |-> ctx, rows |-> <<>>]
    ELSE CopyPending(ctx, data, IF ctx.pendingData # <<>> THEN ToCopy(ctx, data) ELSE 0)

\* every fragment of one ZLIB stream through ProcessImageData, in order
RECURSIVE ProcessFragments(_, _, _, _)
\* r is what ProcessImageData did with fragment i
FragmentDone(r, frags, i, rows) == ProcessFragments(r.ctx, frags, i + 1, rows \o r.rows)

ProcessFragments(ctx, frags, i, rows) ==
    IF i > Len(frags) THEN [ctx |-> ctx, rows |-> rows]
    ELSE FragmentDone(ProcessImageData(ctx, frags[i]), frags, i, rows)

\* z is what mini_zlib::Decompress returned, f what its callback did to the context
ImageDataResult(z, f) ==
    [pos |-> z.pos,
     result |-> IF z.result = "Undefined" THEN "Undefined"
                ELSE IF z.result # "OK" THEN "ZlibError"
                ELSE f.ctx.result,
     dctx |-> f.ctx,
     rows |-> f.rows]

ImageDataOf(z, ctx) == ImageDataResult(z, ProcessFragments(ctx, z.frags, 1, <<>>))

\* ParseImageData(chunk, bs, dctx, scanLineFn)
ParseImageData(data, pos, length, ctx, oob) ==
    ImageDataOf(ZlibDecompress(data, pos, length, oob), ctx)

(***************************************************************************)
(* mini_png::Parse, cut where the model takes its steps: the signature,    *)
(* the first chunk, and one iteration of the chunk loop.                   *)
(***************************************************************************)
\* width * GetBytesPerPixel() on a size_t
GetScanLineLengthInBytes(ihdr) ==
    IF GetBytesPerPixel(ihdr) = 0 THEN 0
    ELSE IF ToSize(ihdr.width) >= SizeCap \div GetBytesPerPixel(ihdr) THEN SizeCap
    ELSE ToSize(ihdr.width) * GetBytesPerPixel(ihdr)

\* 3.1 PNG file signature
RECURSIVE ReadSignature(_, _, _)
\* byte is what GetByte() returned for signature byte i
SignatureByte(data, byte, i) ==
    IF ~byte.has THEN [pos |-> byte.pos, result |-> "PrematureEndOfFile"]
    ELSE IF byte.v # png_signature[i] THEN [pos |-> byte.pos, result |-> "BadSignature"]
    ELSE ReadSignature(data, byte.pos, i + 1)

ReadSignature(data, pos, i) ==
    IF i > Len(png_signature) THEN [pos |-> pos, result |-> "OK"]
    ELSE SignatureByte(data, GetByte(data, pos), i)

\* 3.2 First chunk must be IHDR.
\*   header  what ReadHeader left, parsed whether ParseImageHeader ran,
\*   result  the value Parse returns here, "OK" when it goes on to imageHeaderFn
FirstParsed(header, r) ==
    [pos |-> r.pos, result |-> r.result, header |-> header, parsed |-> TRUE, ihdr |-> r.ihdr]

\* faulty variant: the type of the first chunk is not tested
FirstHeader_AnyType(data, header) ==
    IF ~header.ok
    THEN [pos |-> header.pos, result |-> "PrematureEndOfFile", header |-> header,
          parsed |-> FALSE, ihdr |-> NoHeader]
    ELSE FirstParsed(header, ParseImageHeader(data, header.pos))

FirstHeader(data, header) ==
    IF ~header.ok
    THEN [pos |-> header.pos, result |-> "PrematureEndOfFile", header |-> header,
          parsed |-> FALSE, ihdr |-> NoHeader]
    ELSE IF header.type # type_IHDR
    THEN [pos |-> header.pos, result |-> "InvalidFirstChunk", header |-> header,
          parsed |-> FALSE, ihdr |-> NoHeader]
    ELSE FirstParsed(header, ParseImageHeader(data, header.pos))

FirstChunk(data, pos) == FirstHeader(data, ReadHeader(data, pos))

\* the IDAT branch: r is what ParseImageData returned
ImageDataChunk(chunk, r) ==
    [pos |-> IF r.result # "OK" THEN r.pos ELSE Skip(r.pos, 4),
     result |-> IF r.result # "OK" THEN r.result ELSE "",
     ends |-> FALSE, chunk |-> chunk, dctx |-> r.dctx, rows |-> r.rows]

\* the body of the chunk loop, chunk being what ReadHeader left.
\*   result  the value returned, "" when the loop goes on;  ends: the loop was left by break
ChunkBody(data, chunk, ctx, oob) ==
    IF ~chunk.ok
    THEN [pos |-> chunk.pos, result |-> "PrematureEndOfFile", ends |-> FALSE,
          chunk |-> chunk, dctx |-> ctx, rows |-> <<>>]
    ELSE IF chunk.type = type_IHDR
    THEN [pos |-> chunk.pos, result |-> "MultipleIHDR", ends |-> FALSE,
          chunk |-> chunk, dctx |-> ctx, rows |-> <<>>]
    ELSE IF chunk.type = type_IDAT
    THEN ImageDataChunk(chunk, ParseImageData(data, chunk.pos, chunk.length, ctx, oob))
    ELSE IF chunk.type = type_IEND
    THEN [pos |-> Skip(chunk.pos, 4), result |-> "", ends |-> TRUE,
          chunk |-> chunk, dctx |-> ctx, rows |-> <<>>]
    ELSE IF ~IsAncillary(chunk.type)
    THEN [pos |-> chunk.pos, result |-> "UnsupportedCriticalChunkEncountered",
          ends |-> FALSE, chunk |-> chunk, dctx |-> ctx, rows |-> <<>>]
    ELSE [pos |-> ChunkSkip(chunk.pos, chunk.length), result |-> "", ends |-> FALSE,
          chunk |-> chunk, dctx |-> ctx, rows |-> <<>>]

ParseChunk(data, pos, ctx, oob) == ChunkBody(data, ReadHeader(data, pos), ctx, oob)

(***************************************************************************)
(* Inputs                                                                  *)
(***************************************************************************)
\* all sequences over S of length 0 .. n
SeqsUpTo(S, n) == UNION {[1 .. k -> S] : k \in 0 .. n}

\* What may follow a buffer in memory: nothing readable (the read faults), or bytes.
OobMems == {<<>>, <<0, 255>>}

(***************************************************************************)
(* DEFLATE input streams.  A stream is described by its blocks:            *)
(*   [final |-> 0 or 1, btype |-> 0 .. 3, items |-> sequence of items]     *)
(* where an item is <<"lit", byte>> or <<"ref", length, distance>>, and is *)
(* encoded as RFC 1951 lays it out, with the codes of the fixed trees and  *)
(* the base / extra-bit tables of detail, as the streams of the tests are. *)
(***************************************************************************)
Lit(b) == <<"lit", b>>
Ref(len, dist) == <<"ref", len, dist>>

\* a code of len bits, most significant bit first
CodeBits(code, len) == [i \in 1 .. len |-> (code \div Pow2(len - i)) % 2]
\* a data field of n bits, least significant bit first
FieldBits(v, n) == [i \in 1 .. n |-> (v \div Pow2(i - 1)) % 2]

SymbolBits(tree, symbol) ==
    CodeBits(tree.nodes[symbol + 1].code, tree.nodes[symbol + 1].length)

\* the last index of a base table whose base is <= v
BaseIndex(table, v) ==
    CHOOSE n \in 0 .. Len(table) - 1 :
        /\ At(table, n) <= v
        /\ \A m \in n + 1 .. Len(table) - 1 : At(table, m) > v

ItemBits(item) ==
    IF item[1] = "lit" THEN SymbolBits(FixedLengthTree, item[2])
    ELSE LET n == BaseIndex(repeat_offset_base, item[2])
             d == BaseIndex(dist_base, item[3])
         IN SymbolBits(FixedLengthTree, SYMBOL_REPEAT_FIRST + n)
            \o FieldBits(item[2] - At(repeat_offset_base, n), At(repeat_extra_bits, n))
            \o SymbolBits(FixedDistanceTree, d)
            \o FieldBits(item[3] - At(dist_base, d), At(dist_bits, d))

RECURSIVE ItemsBits(_, _)
ItemsBits(items, i) ==
    IF i > Len(items) THEN <<>> ELSE ItemBits(items[i]) \o ItemsBits(items, i + 1)

PadToByte(bits) == bits \o [i \in 1 .. ((8 - (Len(bits) % 8)) % 8) |-> 0]

\* the bytes of a stored block's items (literals only)
LiteralBytes(items) == [i \in 1 .. Len(items) |-> items[i][2]]

RECURSIVE BytesBits(_, _)
BytesBits(bytes, i) ==
    IF i > Len(bytes) THEN <<>> ELSE FieldBits(bytes[i], 8) \o BytesBits(bytes, i + 1)

\* the bits of the stream so far, followed by those of block blk
BlockBits(bits, blk) ==
    LET head == bits \o <<blk.final>> \o FieldBits(blk.btype, 2) IN
    CASE blk.btype = 0 ->
            PadToByte(head)
            \o FieldBits(Len(blk.items), 16) \o FieldBits(65535 - Len(blk.items), 16)
            \o BytesBits(LiteralBytes(blk.items), 1)
      [] blk.btype = 1 ->
            head \o ItemsBits(blk.items, 1) \o SymbolBits(FixedLengthTree, SYMBOL_EOS)
      [] OTHER -> head

RECURSIVE StreamBits(_, _, _)
StreamBits(desc, i, bits) ==
    IF i > Len(desc) THEN bits ELSE StreamBits(desc, i + 1, BlockBits(bits, desc[i]))

PackBytes(bits) ==
    LET p == PadToByte(bits) IN
    [k \in 1 .. Len(p) \div 8 |->
        p[8 * k - 7] + 2 * p[8 * k - 6] + 4 * p[8 * k - 5] + 8 * p[8 * k - 4]
        + 16 * p[8 * k - 3] + 32 * p[8 * k - 2] + 64 * p[8 * k - 1] + 128 * p[8 * k]]

EncodeDeflate(desc) == PackBytes(StreamBits(desc, 1, <<>>))

\* RFC 1951 on a described stream: the bytes it stands for, each back-reference
\* copying from everything before it, earlier blocks included (a back-reference
\* to before the start of the output stands for nothing)
RECURSIVE ExpandItems(_, _, _)
ExpandItems(items, i, out) ==
    IF i > Len(items) THEN out
    ELSE IF items[i][1] = "lit" THEN ExpandItems(items, i + 1, Append(out, items[i][2]))
    ELSE IF items[i][3] > Len(out) THEN ExpandItems(items, i + 1, out)
    ELSE ExpandItems(items, i + 1, CopyLoop(out, Len(out) - items[i][3], items[i][2]))

RECURSIVE Expand(_, _, _)
Expand(desc, i, out) ==
    IF i > Len(desc) THEN out ELSE Expand(desc, i + 1, ExpandItems(desc[i].items, 1, out))

\* every back-reference of the items reaches at most `before` + the bytes the items
\* before it stand for
RECURSIVE RefsWithin(_, _, _)
RefsWithin(items, i, before) ==
    IF i > Len(items) THEN TRUE
    ELSE IF items[i][1] = "lit" THEN RefsWithin(items, i + 1, before + 1)
    ELSE items[i][3] <= before /\ RefsWithin(items, i + 1, before + items[i][2])

RECURSIVE ItemsLength(_, _)
ItemsLength(items, i) ==
    IF i > Len(items) THEN 0
    ELSE (IF items[i][1] = "lit" THEN 1 ELSE items[i][2]) + ItemsLength(items, i + 1)

\* the bytes blocks 1 .. k stand for
RECURSIVE LengthBefore(_, _)
LengthBefore(desc, k) ==
    IF k = 0 THEN 0 ELSE LengthBefore(desc, k - 1) + ItemsLength(desc[k].items, 1)

\* every block is stored or fixed, and only the last one has the final bit set
OnlyLastFinal(desc) ==
    /\ desc # <<>>
    /\ \A k \in 1 .. Len(desc) :
          /\ desc[k].btype \in {0, 1}
          /\ desc[k].final = (IF k = Len(desc) THEN 1 ELSE 0)

\* every back-reference stays inside its own block's output
RefsWithinBlocks(desc) == \A k \in 1 .. Len(desc) : RefsWithin(desc[k].items, 1, 0)

\* every back-reference stays inside the cumulative output of the stream
RefsWithinStream(desc) ==
    \A k \in 1 .. Len(desc) : RefsWithin(desc[k].items, 1, LengthBefore(desc, k - 1))

RECURSIVE Flatten(_, _)
Flatten(frags, i) == IF i > Len(frags) THEN <<>> ELSE frags[i] \o Flatten(frags, i + 1)

(***************************************************************************)
(* SpecBits: a BitStreamer over a short byte sequence, driven by any       *)
(* sequence of GetDataBits / GetHuffmanBits / SkipUntilByteBoundary /      *)
(* reset calls.                                                            *)
(***************************************************************************)
MaxBitsData == 2
BitsByteVals == {0, 141, 255}
NeedVals == {1, 2, 3, 5, 8, 9, 16}

NoLast == [op |-> "", need |-> 0, has |-> FALSE, v |-> 0, unread |-> 0, ub |-> FALSE]
NoBis == NewBitStreamer(<<>>, <<>>)
BitsIdle == bis = NoBis /\ bsLast = NoLast
bitsVars == <<bis, bsLast>>

NoCtx == NewDecodeContext(0, 0)
CtxIdle ==
    /\ dctx = NoCtx /\ rowLog = <<>> /\ cStream = <<>> /\ cOff = 0 /\ cJoined = FALSE
    /\ cRaw = <<>>
ctxVars == <<dctx, rowLog, cStream, cOff, cJoined, cRaw>>

DeflIdle ==
    /\ dDesc = <<>> /\ dCut = 0 /\ dBs = NoBis
    /\ dPc = "" /\ dResult = "" /\ dSink = <<>>
deflVars == <<dDesc, dCut, dBs, dPc, dResult, dSink>>

NoZlibIn == [hdr |-> <<>>, desc |-> <<>>, trailer |-> "", tail |-> 0]
ZlibIdle ==
    /\ zIn = NoZlibIn /\ zData = <<>> /\ zLength = 0
    /\ zPc = "" /\ zOut = ZlibEarly(0, "")
zlibVars == <<zIn, zData, zLength, zPc, zOut>>

NoPngIn == [sig |-> <<>>, chunks |-> <<>>, cut |-> 0]
NoPngHdr == [parsed |-> FALSE, result |-> "", at |-> 0]
NoPngLast ==
    [step |-> "", ok |-> FALSE, type |-> W32(0, 0), length |-> 0, at |-> 0,
     rows |-> 0, calls |-> 0, dctx |-> NoCtx]
PngIdle ==
    /\ pIn = NoPngIn /\ pData = <<>> /\ pPos = 0 /\ pPc = "" /\ pResult = ""
    /\ pHdr = NoPngHdr /\ pCalls = 0 /\ pPast = FALSE /\ pLast = NoPngLast /\ pChunks = 0
pngVars == <<pIn, pData, pPos, pPc, pResult, pHdr, pCalls, pPast, pLast, pChunks>>

NoTree == [min_bits |-> 0, max_bits |-> 0, table_ub |-> FALSE, nodes |-> <<>>]
NoSymbol == [bs |-> NoBis, result |-> "", symbol |-> 0]
HuffIdle ==
    /\ hLens = <<>> /\ hSym = 0 /\ hPad = 0 /\ hTree = NoTree /\ hPc = "" /\ hOut = NoSymbol
huffVars == <<hLens, hSym, hPad, hTree, hPc, hOut>>

AdlerIdle == aA = <<>> /\ aB = <<>> /\ aValue = initial_Adler32 /\ aPc = 0
adlerVars == <<aA, aB, aValue, aPc>>

NoProgram == [hlit |-> 0, hdist |-> 0, ops |-> <<>>, items |-> <<>>, cut |-> 0]
DynIdle ==
    /\ yProg = NoProgram /\ yBs = NoBis /\ yTrees = NoSymbol /\ yBlock = NoSymbol /\ yPc = ""
dynVars == <<yProg, yBs, yTrees, yBlock, yPc>>

\* what the actions of each specification leave alone
bitsFrame == <<oobMem, ctxVars, deflVars, zlibVars, pngVars, huffVars, adlerVars, dynVars>>
ctxFrame == <<oobMem, bitsVars, deflVars, zlibVars, pngVars, huffVars, adlerVars, dynVars>>
deflFrame == <<oobMem, bitsVars, ctxVars, zlibVars, pngVars, huffVars, adlerVars, dynVars>>
zlibFrame == <<oobMem, bitsVars, ctxVars, deflVars, pngVars, huffVars, adlerVars, dynVars>>
huffFrame == <<oobMem, bitsVars, ctxVars, deflVars, zlibVars, pngVars, adlerVars, dynVars>>
adlerFrame == <<oobMem, bitsVars, ctxVars, deflVars, zlibVars, pngVars, huffVars, dynVars>>
dynFrame == <<oobMem, bitsVars, ctxVars, deflVars, zlibVars, pngVars, huffVars, adlerVars>>
pngFrame ==
    <<oobMem, bitsVars, deflVars, zlibVars, cStream, cOff, cJoined, cRaw, huffVars, adlerVars,
      dynVars>>

InitBits ==
    /\ oobMem \in OobMems
    /\ bis \in {NewBitStreamer(d, oobMem) : d \in SeqsUpTo(BitsByteVals, MaxBitsData)}
    /\ bsLast = NoLast
    /\ CtxIdle
    /\ DeflIdle
    /\ ZlibIdle
    /\ PngIdle
    /\ HuffIdle
    /\ AdlerIdle
    /\ DynIdle

CallGetDataBits ==
    /\ ~bis.crashed
    /\ \E need \in NeedVals :
          LET r == GetDataBits(bis, need) IN
          /\ bis' = r.bs
          /\ bsLast' = [op |-> "GetDataBits", need |-> need, has |-> r.has, v |-> r.v,
                        unread |-> UnreadBits(bis), ub |-> bis.ub]
    /\ UNCHANGED bitsFrame

CallGetHuffmanBits ==
    /\ ~bis.crashed
    /\ \E need \in NeedVals :
          LET r == GetHuffmanBits(bis, need) IN
          /\ bis' = r.bs
          /\ bsLast' = [op |-> "GetHuffmanBits", need |-> need, has |-> r.has, v |-> r.v,
                        unread |-> UnreadBits(bis), ub |-> bis.ub]
    /\ UNCHANGED bitsFrame

CallSkipUntilByteBoundary ==
    /\ ~bis.crashed
    /\ bis' = SkipUntilByteBoundary(bis)
    /\ bsLast' = [op |-> "SkipUntilByteBoundary", need |-> 0, has |-> FALSE, v |-> 0,
                  unread |-> UnreadBits(bis), ub |-> bis.ub]
    /\ UNCHANGED bitsFrame

CallReset ==
    /\ ~bis.crashed
    /\ bis' = reset(bis)
    /\ bsLast' = [op |-> "reset", need |-> 0, has |-> FALSE, v |-> 0,
                  unread |-> UnreadBits(bis), ub |-> bis.ub]
    /\ UNCHANGED bitsFrame

NextBits == CallGetDataBits \/ CallGetHuffmanBits \/ CallSkipUntilByteBoundary \/ CallReset

vars == <<oobMem, bitsVars, ctxVars, deflVars, zlibVars, pngVars, huffVars, adlerVars, dynVars>>

SpecBits == InitBits /\ [][NextBits]_vars

(***************************************************************************)
(* C4: GetDataBits(n), 1 <= n <= 16, called when fewer than n unread bits  *)
(* remain (buffered bits plus unread bytes), returns the absent value and  *)
(* never indexes the byte sequence at a position >= its size.              *)
(***************************************************************************)
C4_ShortReadIsAbsentAndInRange ==
    (bsLast.op = "GetDataBits" /\ ~bsLast.ub /\ bsLast.unread < bsLast.need)
        => (~bsLast.has /\ ~bis.ub)

(***************************************************************************)
(* SpecCtx: one DecodeContext fed a decompressed stream cut into           *)
(* consecutive fragments of any sizes, empty ones included.                *)
(***************************************************************************)
MaxStream == 5
CtxByteVals == {0, 4, 5, 255}
\* <<bytesPerPixel, scanLineLengthInBytes>>: 8-bit grey of width 1 and 2, 8-bit
\* grey + alpha of width 1, and a bit depth below 8 (both values are 0)
CtxShapes == {<<1, 1>>, <<1, 2>>, <<2, 2>>, <<0, 0>>}

InitCtx ==
    /\ oobMem = <<>>
    /\ BitsIdle
    /\ DeflIdle
    /\ ZlibIdle
    /\ PngIdle
    /\ HuffIdle
    /\ AdlerIdle
    /\ DynIdle
    /\ \E shape \in CtxShapes : dctx = NewDecodeContext(shape[1], shape[2])
    /\ rowLog = <<>>
    /\ cStream \in SeqsUpTo(CtxByteVals, MaxStream)
    /\ cOff = 0
    /\ cJoined = FALSE
    /\ cRaw = <<>>

\* one ProcessImageData call with the next k bytes of the stream
FeedFragment ==
    /\ \E k \in 0 .. Len(cStream) - cOff :
          LET frag == SubSeq(cStream, cOff + 1, cOff + k)
              r == ProcessImageData(dctx, frag)
              joined == /\ dctx.result = "OK"
                        /\ dctx.pendingData # <<>>
                        /\ PendingStep([dctx EXCEPT !.pendingData =
                               @ \o SubSeq(frag, 1, ToCopy(dctx, frag))]).rows # <<>>
          IN
          /\ dctx' = r.ctx
          /\ rowLog' = rowLog \o r.rows
          /\ cOff' = cOff + k
          /\ cJoined' = (cJoined \/ joined)
    /\ UNCHANGED <<ctxFrame, cStream, cRaw>>

NextCtx == FeedFragment

SpecCtx == InitCtx /\ [][NextCtx]_vars

\* the same bytes passed to a fresh context as one fragment
OneFragment ==
    ProcessImageData(NewDecodeContext(dctx.bytesPerPixel, dctx.scanLineLengthInBytes),
                     SubSeq(cStream, 1, cOff))

(***************************************************************************)
(* C2: however the stream is cut into fragments, the rows passed to the    *)
(* row callback and the DecodeContext result are those of passing the same *)
(* bytes as one fragment.                                                  *)
(***************************************************************************)
C2_FragmentationIndependent ==
    /\ rowLog = OneFragment.rows
    /\ dctx.result = OneFragment.ctx.result

\* a fragment ended inside a scanline, the scanline was completed by a later
\* fragment, and the stream again ends inside a scanline
C2_Witness ==
    /\ cJoined
    /\ Len(rowLog) >= 2
    /\ dctx.pendingData # <<>>
    /\ cOff = Len(cStream)
    /\ dctx.result = "OK"

(***************************************************************************)
(* SpecDeflate: mini_deflate::Decompress over an encoded stream of up to   *)
(* MaxBlocks stored / fixed / reserved-type blocks, whole or with its last *)
(* bytes cut off; one step per iteration of the block loop.                *)
(***************************************************************************)
MaxBlocks == 2
MaxCut == 1

DeflItemLists ==
    { <<>>,
      <<Lit(97)>>,
      <<Lit(97), Ref(3, 1)>>,
      <<Ref(3, 1)>>,
      <<Lit(97), Lit(98), Ref(4, 2)>>,
      <<Lit(97), Lit(98), Lit(99), Lit(100), Ref(3, 4), Ref(5, 2)>> }

DeflBlocks ==
    { [final |-> f, btype |-> 1, items |-> it] : f \in {0, 1}, it \in DeflItemLists }
    \cup { [final |-> f, btype |-> 0, items |-> it] : f \in {0, 1}, it \in {<<>>, <<Lit(97)>>} }
    \cup { [final |-> 1, btype |-> 3, items |-> <<>>] }

DeflDescs == UNION { [1 .. n -> DeflBlocks] : n \in 1 .. MaxBlocks }

CutEnd(data, cut) == SubSeq(data, 1, Len(data) - Min(cut, Len(data)))

InitDeflate ==
    /\ oobMem \in OobMems
    /\ BitsIdle
    /\ CtxIdle
    /\ ZlibIdle
    /\ PngIdle
    /\ HuffIdle
    /\ AdlerIdle
    /\ DynIdle
    /\ dDesc \in DeflDescs
    /\ dCut \in 0 .. MaxCut
    /\ dBs = NewBitStreamer(CutEnd(EncodeDeflate(dDesc), dCut), oobMem)
    /\ dPc = "loop"
    /\ dResult = ""
    /\ dSink = <<>>

\* one iteration of while(true): block header, block, callbackFn, the break test
DeflateIteration ==
    /\ dPc = "loop"
    /\ LET it == DecompressIteration(dBs) IN
       /\ dBs' = it.bs
       /\ dSink' = IF it.emitted THEN Append(dSink, it.output) ELSE dSink
       /\ dResult' = it.result
       /\ dPc' = IF it.bs.crashed \/ it.result = "Undefined" THEN "crashed"
                 ELSE IF it.result = "" THEN "loop" ELSE "done"
    /\ UNCHANGED <<deflFrame, dDesc, dCut>>

NextDeflate == DeflateIteration

SpecDeflate == InitDeflate /\ [][NextDeflate]_vars

(***************************************************************************)
(* C1: for a whole stream of k blocks, each decodable on its own and only  *)
(* the last one final, Decompress returns OK after calling the sink k      *)
(* times.                                                                  *)
(***************************************************************************)
C1_SinkCalledOncePerBlock ==
    (/\ dPc = "done"
     /\ dCut = 0
     /\ OnlyLastFinal(dDesc)
     /\ RefsWithinBlocks(dDesc))
        => (dResult = "OK" /\ Len(dSink) = Len(dDesc))

(***************************************************************************)
(* C3: for a whole stream whose back-references all stay inside the        *)
(* cumulative output, one of them reaching into an earlier block,          *)
(* Decompress returns OK (never CorruptDistance) and the bytes passed to   *)
(* the sink are those the back-references copy from the concatenation of   *)
(* all output so far.                                                      *)
(***************************************************************************)
C3_BackReferenceIntoEarlierBlocks ==
    (/\ dPc = "done"
     /\ dCut = 0
     /\ OnlyLastFinal(dDesc)
     /\ RefsWithinStream(dDesc)
     /\ ~RefsWithinBlocks(dDesc))
        => (dResult = "OK" /\ Flatten(dSink, 1) = Expand(dDesc, 1, <<>>))

(***************************************************************************)
(* SpecZlib: one call of mini_zlib::Decompress(s, length, callback) on a   *)
(* source stream that holds a ZLIB stream (header, DICTID when FDICT is    *)
(* set, DEFLATE payload, trailer) followed by up to MaxTail more bytes,    *)
(* with any outer length bound from 0 to MaxSlack more than the stream.    *)
(***************************************************************************)
MaxTail == 4
MaxSlack == 1

\* CMF/FLG: deflate with a good check, the same with FDICT set, a compression
\* method other than deflate, and a failing check
ZlibHeaders == {<<120, 156>>, <<120, 187>>, <<119, 133>>, <<120, 157>>}

ZlibPayloads ==
    { <<[final |-> 1, btype |-> 1, items |-> <<>>]>>,
      <<[final |-> 1, btype |-> 1, items |-> <<Lit(97)>>]>>,
      <<[final |-> 1, btype |-> 0, items |-> <<Lit(97), Lit(98)>>]>>,
      <<[final |-> 1, btype |-> 1, items |-> <<Lit(97), Lit(98), Ref(4, 2)>>]>>,
      <<[final |-> 1, btype |-> 1, items |-> <<Ref(3, 1)>>]>>,
      <<[final |-> 1, btype |-> 3, items |-> <<>>]>>,
      <<[final |-> 0, btype |-> 0, items |-> <<Lit(97)>>],
        [final |-> 1, btype |-> 1, items |-> <<Lit(98)>>]>> }

\* the trailer holds the Adler-32 of the whole expansion ("all"), of the first block's
\* bytes alone ("first"), or zeroes ("zero")
ZlibTrailers == {"all", "first", "zero"}

ChecksumBytes(v) == <<v.hi \div 256, v.hi % 256, v.lo \div 256, v.lo % 256>>

TrailerBytes(desc, kind) ==
    CASE kind = "all" -> ChecksumBytes(Update(initial_Adler32, Expand(desc, 1, <<>>)))
      [] kind = "first" ->
            ChecksumBytes(Update(initial_Adler32, ExpandItems(desc[1].items, 1, <<>>)))
      [] OTHER -> <<0, 0, 0, 0>>

\* the ZLIB stream proper
ZlibStream(in) ==
    in.hdr
    \o (IF DictSkip(in.hdr[2]) = 4 THEN <<1, 2, 3, 4>> ELSE <<>>)
    \o EncodeDeflate(in.desc)
    \o TrailerBytes(in.desc, in.trailer)

InitZlib ==
    /\ oobMem \in OobMems
    /\ BitsIdle
    /\ CtxIdle
    /\ DeflIdle
    /\ PngIdle
    /\ HuffIdle
    /\ AdlerIdle
    /\ DynIdle
    /\ zIn \in [hdr : ZlibHeaders, desc : ZlibPayloads, trailer : ZlibTrailers,
                tail : 0 .. MaxTail]
    /\ zData = ZlibStream(zIn) \o [i \in 1 .. zIn.tail |-> 170]
    /\ zLength \in 0 .. Len(ZlibStream(zIn)) + MaxSlack
    /\ zPc = "call"
    /\ zOut = ZlibEarly(0, "")

\* result = mini_zlib::Decompress(s, length, callback), s at the start of the stream
ZlibCall ==
    /\ zPc = "call"
    /\ zOut' = ZlibDecompress(zData, 0, zLength, oobMem)
    /\ zPc' = IF zOut'.result = "Undefined" THEN "crashed" ELSE "done"
    /\ UNCHANGED <<zlibFrame, zIn, zData, zLength>>

NextZlib == ZlibCall

SpecZlib == InitZlib /\ [][NextZlib]_vars

\* RFC 1950's Adler-32 of a byte sequence, from its two sums
RECURSIVE ByteSumRange(_, _, _)
ByteSumRange(bytes, lo, hi) ==
    IF lo > hi THEN 0
    ELSE IF lo = hi THEN bytes[lo]
    ELSE ByteSumRange(bytes, lo, (lo + hi) \div 2)
             + ByteSumRange(bytes, (lo + hi) \div 2 + 1, hi)
ByteSum(bytes, i) == ByteSumRange(bytes, i, Len(bytes))
RECURSIVE WeightedSumRange(_, _, _)
WeightedSumRange(bytes, lo, hi) ==
    IF lo > hi THEN 0
    ELSE IF lo = hi THEN (Len(bytes) - lo + 1) * bytes[lo]
    ELSE WeightedSumRange(bytes, lo, (lo + hi) \div 2)
             + WeightedSumRange(bytes, (lo + hi) \div 2 + 1, hi)
WeightedSum(bytes, i) == WeightedSumRange(bytes, i, Len(bytes))
Adler32Of(bytes) ==
    W32((Len(bytes) + WeightedSum(bytes, 1)) % 65521, (1 + ByteSum(bytes, 1)) % 65521)

\* the four bytes the source stream held just before where the call left it, big-endian
TrailerRead ==
    W32(zData[zOut.pos - 3] * 256 + zData[zOut.pos - 2],
        zData[zOut.pos - 1] * 256 + zData[zOut.pos])

(***************************************************************************)
(* C5: a call whose header passed its checks returns OK exactly when the   *)
(* DEFLATE decode returned OK and the Adler-32 of the bytes passed to the  *)
(* callback, in order, is the big-endian trailer; when the decode returned *)
(* OK and the two differ it returns ChecksumError.                         *)
(***************************************************************************)
C5_OkIffDeflateOkAndAdlerMatches ==
    (zPc = "done" /\ zOut.header_ok)
        => /\ (zOut.result = "OK") <=>
                  (/\ zOut.deflate = "OK"
                   /\ Adler32Of(Flatten(zOut.frags, 1)) = TrailerRead)
           /\ (zOut.deflate = "OK" /\ Adler32Of(Flatten(zOut.frags, 1)) # TrailerRead)
                  => zOut.result = "ChecksumError"

\* the decode succeeded with output, and the trailer is not its Adler-32
C5_Witness ==
    /\ zPc = "done"
    /\ zOut.header_ok
    /\ zOut.deflate = "OK"
    /\ Len(Flatten(zOut.frags, 1)) >= 2
    /\ Adler32Of(Flatten(zOut.frags, 1)) # TrailerRead
    /\ zOut.result = "ChecksumError"

(***************************************************************************)
(* C6: a call that does not end in PrematureEndOfStream leaves the source  *)
(* stream exactly `length` bytes after where it started.                   *)
(***************************************************************************)
C6_AdvancesExactlyLength ==
    (zPc = "done" /\ zOut.result # "PrematureEndOfStream") => zOut.pos = zLength

(***************************************************************************)
(* SpecPng: mini_png::Parse over a signature, IHDR and up to MaxChunks     *)
(* more chunks, whole or with up to MaxPngCut bytes cut from the end, and  *)
(* over a signature followed by an IHDR chunk of any field values; one     *)
(* step for the signature, one for the first chunk, one per iteration of   *)
(* the chunk loop.  imageHeaderFn counts its calls (pCalls), scanLineFn    *)
(* appends the row to rowLog.                                              *)
(***************************************************************************)
MaxChunks == 2
MaxPngCut == 25
\* DecodeContext's two scanline vectors are built up to this length; Parse is not
\* followed into a larger allocation (pPc = "alloc")
MaxAlloc == 16

Be32(n) == <<0, 0, n \div 256, n % 256>>

\* length, type, data, and a checksum (which nothing reads)
ChunkBytes(c) == Be32(Len(c.payload)) \o c.type \o c.payload \o <<192, 193, 194, 195>>

IhdrPayload(h) ==
    ChecksumBytes(h.width) \o ChecksumBytes(h.height)
    \o <<h.bitDepth, h.colorType, h.compressionMethod, h.filterMethod, h.interlaceMethod>>

IhdrChunk(h) == [type |-> <<73, 72, 68, 82>>, payload |-> IhdrPayload(h)]

\* a ZLIB stream of one stored block holding `bytes`
StoredZlib(bytes) ==
    ZlibStream([hdr |-> <<120, 156>>,
                desc |-> <<[final |-> 1, btype |-> 0,
                            items |-> [i \in 1 .. Len(bytes) |-> Lit(bytes[i])]]>>,
                trailer |-> "all", tail |-> 0])

IdatChunk(bytes) == [type |-> <<73, 68, 65, 84>>, payload |-> StoredZlib(bytes)]

\* an IDAT chunk whose Adler-32 trailer is four zero bytes
CorruptIdatChunk(bytes) ==
    [type |-> <<73, 68, 65, 84>>,
     payload |-> ZlibStream([hdr |-> <<120, 156>>,
                             desc |-> <<[final |-> 1, btype |-> 0,
                                         items |-> [i \in 1 .. Len(bytes) |-> Lit(bytes[i])]]>>,
                             trailer |-> "zero", tail |-> 0])]

\* image data for them: a scanline of filter type 5, a good scanline, and both
CorruptIdatData == {<<5, 0, 0>>, <<1, 5, 6>>, <<1, 5, 6, 5, 0, 0>>}

\* 1 x 1, 8-bit greyscale with alpha: two bytes per pixel, two bytes per scanline
GreyAlpha ==
    [width |-> W32(0, 1), height |-> W32(0, 1), bitDepth |-> 8, colorType |-> 4,
     compressionMethod |-> 0, filterMethod |-> 0, interlaceMethod |-> 0]

\* IHDR, a whole scanline (filter Sub) and its first byte again, two thirds of a
\* scanline, IEND, an ancillary chunk (tEXt) and a critical one nothing knows (PLTE)
PngChunks ==
    { IhdrChunk(GreyAlpha),
      IdatChunk(<<1, 5, 6, 1>>),
      IdatChunk(<<4, 2>>),
      [type |-> <<73, 69, 78, 68>>, payload |-> <<>>],
      [type |-> <<116, 69, 88, 116>>, payload |-> <<65, 0>>],
      [type |-> <<80, 76, 84, 69>>, payload |-> <<7>>] }

\* the chunks that follow the first IHDR
PngRests == UNION { [1 .. n -> PngChunks] : n \in 0 .. MaxChunks }

\* IHDR fields: widths 1 and 3, widths and heights on both sides of 2^31 - 1, every colour type
\* 0 .. 7 with the five bit depths and one that is none, methods 0 and 1
HeaderVariants ==
    [width : {W32(0, 1), W32(0, 3), W32(32767, 65535), W32(32768, 0)},
     height : {W32(0, 1), W32(32768, 0)},
     bitDepth : {1, 2, 3, 4, 8, 16},
     colorType : 0 .. 7,
     compressionMethod : {0, 1}, filterMethod : {0, 1}, interlaceMethod : {0, 1}]

RECURSIVE ChunksBytes(_, _)
ChunksBytes(chunks, i) ==
    IF i > Len(chunks) THEN <<>> ELSE ChunkBytes(chunks[i]) \o ChunksBytes(chunks, i + 1)

PngBytes(in) == CutEnd(in.sig \o ChunksBytes(in.chunks, 1), in.cut)

\* a signature alone and IHDR followed by any chunks, whole or cut short; another
\* chunk in the place of IHDR; IHDR with any field values; image data with a wrong
\* Adler-32; a wrong signature
PngInputs ==
    [sig : {png_signature},
     chunks : {<<>>} \cup {<<IhdrChunk(GreyAlpha)>> \o r : r \in PngRests},
     cut : 0 .. MaxPngCut]
    \cup [sig : {png_signature},
          chunks : {<<c>> \o r : c \in PngChunks \ {IhdrChunk(GreyAlpha)},
                                 r \in {<<>>, <<IhdrChunk(GreyAlpha)>>}},
          cut : {0}]
    \cup [sig : {png_signature}, chunks : {<<IhdrChunk(h)>> : h \in HeaderVariants}, cut : {0}]
    \cup [sig : {png_signature},
          chunks : {<<IhdrChunk(GreyAlpha), CorruptIdatChunk(b)>> : b \in CorruptIdatData},
          cut : {0}]
    \cup [sig : {[png_signature EXCEPT ![1] = 138], [png_signature EXCEPT ![8] = 13]},
          chunks : {<<>>}, cut : {0}]

InitPng ==
    /\ oobMem \in OobMems
    /\ BitsIdle
    /\ CtxIdle
    /\ DeflIdle
    /\ ZlibIdle
    /\ HuffIdle
    /\ AdlerIdle
    /\ DynIdle
    /\ pIn \in PngInputs
    /\ pData = PngBytes(pIn)
    /\ pPos = 0
    /\ pPc = "signature"
    /\ pResult = ""
    /\ pHdr = NoPngHdr
    /\ pCalls = 0
    /\ pPast = FALSE
    /\ pLast = NoPngLast
    /\ pChunks = 0

\* 3.1 PNG file signature
PngSignature ==
    /\ pPc = "signature"
    /\ LET r == ReadSignature(pData, pPos, 1) IN
       /\ pPos' = r.pos
       /\ pPast' = (r.result = "PrematureEndOfFile")
       /\ IF r.result = "OK"
          THEN pPc' = "first" /\ pResult' = pResult
          ELSE pPc' = "done" /\ pResult' = r.result
    /\ UNCHANGED <<pngFrame, dctx, rowLog, pIn, pData, pHdr, pCalls, pLast, pChunks>>

\* 3.2 First chunk must be IHDR; imageHeaderFn(ihdr); DecodeContext dctx{ihdr}
PngFirstChunk ==
    /\ pPc = "first"
    /\ LET r == FirstChunk(pData, pPos) IN
       /\ pPos' = r.pos
       /\ pPast' = (r.result = "PrematureEndOfFile" \/ r.pos > Len(pData))
       /\ pHdr' = [parsed |-> r.parsed, result |-> IF r.parsed THEN r.result ELSE "",
                   at |-> r.header.pos]
       /\ pLast' = [step |-> "first", ok |-> r.header.ok, type |-> r.header.type,
                    length |-> r.header.length, at |-> r.header.pos,
                    rows |-> Len(rowLog), calls |-> pCalls, dctx |-> dctx]
       /\ pChunks' = IF r.header.ok THEN 1 ELSE 0
       /\ IF r.result # "OK"
          THEN /\ pPc' = "done" /\ pResult' = r.result
               /\ UNCHANGED <<pCalls, dctx>>
          ELSE /\ pCalls' = pCalls + 1
               /\ pResult' = pResult
               /\ IF GetScanLineLengthInBytes(r.ihdr) > MaxAlloc
                  THEN pPc' = "alloc" /\ dctx' = dctx
                  ELSE /\ pPc' = "loop"
                       /\ dctx' = NewDecodeContext(GetBytesPerPixel(r.ihdr),
                                                   GetScanLineLengthInBytes(r.ihdr))
    /\ UNCHANGED <<pngFrame, rowLog, pIn, pData>>

\* while(!bs.eof()) is left: return Result::OK
PngEndOfInput ==
    /\ pPc = "loop"
    /\ StreamEof(pData, pPos)
    /\ pPc' = "done"
    /\ pResult' = "OK"
    /\ pLast' = [NoPngLast EXCEPT !.step = "eof"]
    /\ UNCHANGED <<pngFrame, dctx, rowLog, pIn, pData, pPos, pHdr, pCalls, pPast, pChunks>>

\* one iteration of the chunk loop
PngChunk ==
    /\ pPc = "loop"
    /\ ~StreamEof(pData, pPos)
    /\ LET r == ParseChunk(pData, pPos, dctx, oobMem) IN
       /\ pPos' = r.pos
       /\ dctx' = r.dctx
       /\ rowLog' = rowLog \o r.rows
       /\ pPast' = (pPast \/ r.result = "PrematureEndOfFile"
                          \/ (r.result = "" /\ r.pos > Len(pData)))
       /\ pLast' = [step |-> "chunk", ok |-> r.chunk.ok, type |-> r.chunk.type,
                    length |-> r.chunk.length, at |-> r.chunk.pos,
                    rows |-> Len(rowLog), calls |-> pCalls, dctx |-> dctx]
       /\ pChunks' = IF r.chunk.ok THEN pChunks + 1 ELSE pChunks
       /\ pPc' = IF r.result = "Undefined" THEN "crashed"
                 ELSE IF r.result # "" \/ r.ends THEN "done"
                 ELSE "loop"
       /\ pResult' = IF r.result = "Undefined" THEN pResult
                     ELSE IF r.result # "" THEN r.result
                     ELSE IF r.ends THEN "OK"
                     ELSE pResult
    /\ UNCHANGED <<pngFrame, pIn, pData, pHdr, pCalls>>

NextPng == PngSignature \/ PngFirstChunk \/ PngEndOfInput \/ PngChunk

SpecPng == InitPng /\ [][NextPng]_vars

(***************************************************************************)
(* C7: when Parse has returned and one of its own reads or skips (of the   *)
(* signature, a chunk header, the IHDR payload or its checksum, a skipped  *)
(* chunk's payload or checksum, the checksum of an IDAT or IEND chunk)     *)
(* went past the end of the input, the result is PrematureEndOfFile.       *)
(***************************************************************************)
C7_PastTheEndIsPrematureEndOfFile ==
    (pPc = "done" /\ pPast) => pResult = "PrematureEndOfFile"

(***************************************************************************)
(* C8: when the first chunk header read is not IHDR, Parse has returned    *)
(* InvalidFirstChunk and neither callback has been invoked; when a later   *)
(* chunk header read is IHDR, whatever came before it, Parse has returned  *)
(* MultipleIHDR and no row was emitted since that header was read.         *)
(***************************************************************************)
C8_ChunkOrdering ==
    /\ (pLast.step = "first" /\ pLast.ok /\ pLast.type # W32(18760, 17490))
          => /\ pPc = "done"
             /\ pResult = "InvalidFirstChunk"
             /\ pCalls = 0
             /\ rowLog = <<>>
    /\ (pLast.step = "chunk" /\ pLast.ok /\ pLast.type = W32(18760, 17490))
          => /\ pPc = "done"
             /\ pResult = "MultipleIHDR"
             /\ Len(rowLog) = pLast.rows

\* a second IHDR after IHDR and an IDAT that emitted a row
C8_Witness ==
    /\ pLast.step = "chunk"
    /\ pLast.ok
    /\ pLast.type = W32(18760, 17490)
    /\ pChunks = 3
    /\ rowLog # <<>>
    /\ pResult = "MultipleIHDR"

\* the chunk the last step read is none of IHDR, IDAT, IEND
UnknownChunk ==
    /\ pLast.step = "chunk"
    /\ pLast.ok
    /\ pLast.type \notin {W32(18760, 17490), W32(18756, 16724), W32(18757, 20036)}

\* bit 5 of the first byte of its type
Bit5OfType == ((pLast.type.hi \div 256) \div 32) % 2

(***************************************************************************)
(* C9: after IHDR, a chunk that is none of IHDR/IDAT/IEND ends Parse with  *)
(* UnsupportedCriticalChunkEncountered when bit 5 of its type's first byte *)
(* is clear; otherwise the stream is length + 4 bytes past the chunk       *)
(* header, no callback was invoked, the DecodeContext is as it was, and    *)
(* Parse is at the head of the chunk loop.                                 *)
(***************************************************************************)
C9_UnknownChunks ==
    UnknownChunk =>
        IF Bit5OfType = 0
        THEN pPc = "done" /\ pResult = "UnsupportedCriticalChunkEncountered"
        ELSE /\ pPos = pLast.at + pLast.length + 4
             /\ pCalls = pLast.calls
             /\ Len(rowLog) = pLast.rows
             /\ dctx = pLast.dctx
             /\ pPc = "loop"

\* an ancillary chunk skipped after image data that left a row emitted and part of
\* the next scanline pending
C9_Witness ==
    /\ UnknownChunk
    /\ Bit5OfType = 1
    /\ pLast.length > 0
    /\ dctx.pendingData # <<>>
    /\ rowLog # <<>>
    /\ pPos = Len(pData)
    /\ pPc = "loop"

\* the 13 bytes of the first chunk's payload
IhdrBytes == SubSeq(pData, pHdr.at + 1, pHdr.at + 13)

\* (colour type, bit depth)
ValidPairs ==
    ({0} \X {1, 2, 4, 8, 16}) \cup ({2} \X {8, 16}) \cup ({3} \X {1, 2, 4, 8})
    \cup ({4} \X {8, 16}) \cup ({6} \X {8, 16})

\* the first check that fails, in the order width, height, pair, compression, filter,
\* interlace, on the bytes of the payload: a 32-bit field is at most 2^31 - 1 when its
\* first byte is below 128
FirstFailing(b) ==
    IF b[1] >= 128 THEN "InvalidWidth"
    ELSE IF b[5] >= 128 THEN "InvalidHeight"
    ELSE IF <<b[10], b[9]>> \notin ValidPairs THEN "InvalidColorTypeAndBitDepthCombination"
    ELSE IF b[11] # 0 THEN "UnsupportedCompressionMethod"
    ELSE IF b[12] # 0 THEN "UnsupportedFilterMethod"
    ELSE IF b[13] # 0 THEN "UnsupportedInterlaceMethod"
    ELSE "OK"

(***************************************************************************)
(* C10: when ParseImageHeader ran with all 13 payload bytes present, it    *)
(* returned OK exactly when width and height are at most 2^31 - 1, the     *)
(* (colour type, bit depth) pair is a valid one and the three methods are  *)
(* 0, and otherwise the error of the first failing check; on an error      *)
(* Parse has returned it and neither callback has been invoked.            *)
(***************************************************************************)
C10_HeaderValidation ==
    (pHdr.parsed /\ pHdr.at + 13 <= Len(pData))
        => /\ pHdr.result = FirstFailing(IhdrBytes)
           /\ FirstFailing(IhdrBytes) # "OK"
                 => /\ pPc = "done"
                    /\ pResult = FirstFailing(IhdrBytes)
                    /\ pCalls = 0
                    /\ rowLog = <<>>

\* a header failing two checks: an invalid pair and a compression method other than 0
C10_Witness ==
    /\ pHdr.parsed
    /\ pHdr.at + 13 <= Len(pData)
    /\ IhdrBytes[1] < 128
    /\ IhdrBytes[5] < 128
    /\ <<IhdrBytes[10], IhdrBytes[9]>> \notin ValidPairs
    /\ IhdrBytes[11] # 0
    /\ pPc = "done"
    /\ pResult = "InvalidColorTypeAndBitDepthCombination"

(***************************************************************************)
(* SpecCtx, the scanlines on the wire: scanline k is the                   *)
(* scanLineLengthInBytes + 1 bytes of the stream from offset k * LineSize, *)
(* its first byte the filter type.                                         *)
(***************************************************************************)
LineSize == dctx.scanLineLengthInBytes + 1

\* the scanlines that have been passed whole to ProcessImageData
LinesFed == 0 .. (cOff \div LineSize) - 1

WireLine(k) == SubSeq(cStream, k * LineSize + 1, (k + 1) * LineSize)

\* the fed scanlines whose filter-type byte is outside 0 .. 4
BadLines == {k \in LinesFed : WireLine(k)[1] \notin 0 .. 4}

FirstBadLine == CHOOSE k \in BadLines : \A j \in BadLines : k <= j

(***************************************************************************)
(* C11: the filter error is sticky.  The result of the DecodeContext is    *)
(* UnsupportedFilterType exactly when a scanline with a filter type        *)
(* outside 0 .. 4 has been processed, the rows passed to the row callback  *)
(* are then those of the scanlines before the first such scanline only,    *)
(* and from then on no step changes the result or invokes the callback.    *)
(***************************************************************************)
C11_FilterErrorIsSticky ==
    /\ [](/\ (dctx.result = "UnsupportedFilterType") <=> (BadLines # {})
          /\ BadLines # {} => Len(rowLog) = FirstBadLine)
    /\ [][dctx.result = "UnsupportedFilterType"
            => (dctx'.result = "UnsupportedFilterType" /\ rowLog' = rowLog)]_vars

\* rows were delivered, then a scanline with a bad filter type was processed, and a
\* whole scanline more has been passed since
C11_Witness ==
    /\ dctx.result = "UnsupportedFilterType"
    /\ Len(rowLog) >= 1
    /\ cOff >= (Len(rowLog) + 2) * LineSize
    /\ cOff = Len(cStream)

(***************************************************************************)
(* C12: the first error is the one Parse reports.  When the DecodeContext  *)
(* recorded UnsupportedFilterType while an IDAT chunk was being parsed,    *)
(* Parse returns UnsupportedFilterType, whatever the ZLIB layer did        *)
(* afterwards in that chunk, an Adler-32 mismatch included.                *)
(***************************************************************************)
C12_FirstErrorIsReported ==
    (/\ pPc = "done"
     /\ pLast.step = "chunk"
     /\ pLast.ok
     /\ pLast.type = type_IDAT
     /\ pLast.dctx.result = "OK"
     /\ dctx.result = "UnsupportedFilterType")
        => pResult = "UnsupportedFilterType"

(***************************************************************************)
(* SpecRows: an image of up to MaxRows raw rows is filtered row by row as  *)
(* the PNG specification lays it down (section 9, Filtering), with any     *)
(* filter type 0 .. 4 for each row, and the filtered scanlines are passed  *)
(* to one DecodeContext in fragments of any sizes.                         *)
(***************************************************************************)
MaxRows == 2

\* <<bytesPerPixel, scanLineLengthInBytes>>: two pixels of one byte, one of two
RowShapes == {<<1, 2>>, <<2, 2>>}

\* raw rows: with <<2, 1>> above <<4, 1>> the Paeth distances of a and c tie, with
\* <<2, 4>> above <<1, 250>> those of b and c
RawRows == {<<2, 1>>, <<4, 1>>, <<2, 4>>, <<1, 250>>}

ZeroRow(n) == [x \in 1 .. n |-> 0]

\* the byte bpp places to the left of position x of a row, 0 before its start
LeftOf(row, x, bpp) == IF x - bpp >= 1 THEN row[x - bpp] ELSE 0

\* the Paeth predictor: the candidate nearest to p = a + b - c, the earliest of a, b,
\* c among equally near ones
NearestOf(a, b, c) ==
    LET p == a + b - c
        cand == <<a, b, c>>
        dist == [i \in 1 .. 3 |-> IF p >= cand[i] THEN p - cand[i] ELSE cand[i] - p]
        first == CHOOSE i \in 1 .. 3 :
                     /\ \A j \in 1 .. 3 : dist[i] <= dist[j]
                     /\ \A j \in 1 .. i - 1 : dist[j] > dist[i]
    IN cand[first]

\* the prediction of filter type ft from a (left), b (above) and c (above left)
Predicted(ft, a, b, c) ==
    CASE ft = 0 -> 0
      [] ft = 1 -> a
      [] ft = 2 -> b
      [] ft = 3 -> (a + b) \div 2
      [] ft = 4 -> NearestOf(a, b, c)

\* the scanline on the wire for a raw row: the filter type, then every byte less its
\* prediction from the raw bytes, modulo 256
FilteredLine(ft, row, prev, bpp) ==
    <<ft>> \o [x \in 1 .. Len(row) |->
                  (256 + row[x] - Predicted(ft, LeftOf(row, x, bpp), prev[x],
                                            LeftOf(prev, x, bpp))) % 256]

RECURSIVE FilteredImage(_, _, _, _)
FilteredImage(rows, types, k, bpp) ==
    IF k > Len(rows) THEN <<>>
    ELSE FilteredLine(types[k], rows[k],
                      IF k = 1 THEN ZeroRow(Len(rows[k])) ELSE rows[k - 1], bpp)
         \o FilteredImage(rows, types, k + 1, bpp)

InitRows ==
    /\ oobMem = <<>>
    /\ BitsIdle
    /\ DeflIdle
    /\ ZlibIdle
    /\ PngIdle
    /\ HuffIdle
    /\ AdlerIdle
    /\ DynIdle
    /\ rowLog = <<>>
    /\ cOff = 0
    /\ cJoined = FALSE
    /\ \E shape \in RowShapes, n \in 0 .. MaxRows :
          \E rows \in [1 .. n -> RawRows], types \in [1 .. n -> 0 .. 4] :
             /\ dctx = NewDecodeContext(shape[1], shape[2])
             /\ cRaw = rows
             /\ cStream = FilteredImage(rows, types, 1, shape[1])

NextRows == FeedFragment

SpecRows == InitRows /\ [][NextRows]_vars

\* the reconstruction of a scanline on the wire given the row above it: every byte
\* plus its prediction from the reconstructed bytes, modulo 256, left to right
RECURSIVE Reconstructed(_, _, _, _)
Reconstructed(line, prev, bpp, acc) ==
    IF Len(acc) = Len(line) - 1 THEN acc
    ELSE Reconstructed(line, prev, bpp,
             Append(acc, (line[Len(acc) + 2]
                          + Predicted(line[1], LeftOf(acc, Len(acc) + 1, bpp),
                                      prev[Len(acc) + 1],
                                      LeftOf(prev, Len(acc) + 1, bpp))) % 256))

(***************************************************************************)
(* C13: rows are delivered top to bottom with a one-row history.  On an    *)
(* error-free decode there is one row callback for every whole scanline    *)
(* passed, the k-th carrying the reconstruction of the k-th scanline on    *)
(* the wire with the row of the callback before it as the row above, and   *)
(* an all-zero row above the first.                                        *)
(***************************************************************************)
C13_RowsInOrderWithOneRowHistory ==
    dctx.result = "OK"
        => /\ Len(rowLog) = cOff \div LineSize
           /\ \A k \in 1 .. Len(rowLog) :
                 rowLog[k] = Reconstructed(WireLine(k - 1),
                                           IF k = 1 THEN ZeroRow(LineSize - 1)
                                           ELSE rowLog[k - 1],
                                           dctx.bytesPerPixel, <<>>)

\* a second row that depends on the first (Up, Average or Paeth) was delivered, one of
\* the two from a scanline completed across fragments
C13_Witness ==
    /\ dctx.result = "OK"
    /\ Len(rowLog) >= 2
    /\ cJoined
    /\ WireLine(1)[1] \in {2, 3, 4}
    /\ rowLog[1] # rowLog[2]

(***************************************************************************)
(* C14: filter round trip.  The rows delivered for the filtered scanlines  *)
(* of an image are its raw rows, byte for byte, whatever filter type each  *)
(* row was filtered with; once the whole stream is passed, all of them.    *)
(***************************************************************************)
C14_FilterRoundTrip ==
    /\ dctx.result = "OK"
    /\ rowLog = SubSeq(cRaw, 1, cOff \div LineSize)
    /\ cOff = Len(cStream) => rowLog = cRaw

\* a whole image went through whose second row was filtered with Paeth where the
\* distances of two candidates tie
C14_Witness ==
    /\ cOff = Len(cStream)
    /\ Len(cRaw) >= 2
    /\ rowLog = cRaw
    /\ dctx.bytesPerPixel = 1
    /\ WireLine(1)[1] = 4
    /\ cRaw[1] = <<2, 1>>
    /\ cRaw[2] = <<4, 1>>

\* where in the output the bytes of item j of a block start
OffsetOf(items, j) == ItemsLength(SubSeq(items, 1, j - 1), 1)

\* out is what the items stand for: a literal is its byte, and byte i of a reference
\* (length, distance) is the byte `distance` places before it
StandsFor(items, out) ==
    /\ Len(out) = ItemsLength(items, 1)
    /\ \A j \in 1 .. Len(items) :
          IF items[j][1] = "lit"
          THEN out[OffsetOf(items, j) + 1] = items[j][2]
          ELSE \A i \in 0 .. items[j][2] - 1 :
                  out[OffsetOf(items, j) + i + 1] = out[OffsetOf(items, j) + i + 1 - items[j][3]]

(***************************************************************************)
(* C15: back-reference copy.  For a fixed-Huffman block whose references   *)
(* reach no further back than the block's own output, the output passed to *)
(* the sink has every literal in its place and, for a reference (L, D)     *)
(* taken at n bytes of output, exactly L bytes more with                   *)
(* out[n + i] = out[n + i - D], so that D < L repeats the last D bytes.    *)
(***************************************************************************)
C15_BackReferenceCopy ==
    (/\ dPc = "done"
     /\ dCut = 0
     /\ dDesc[1].btype = 1
     /\ RefsWithin(dDesc[1].items, 1, 0))
        => /\ Len(dSink) >= 1
           /\ StandsFor(dDesc[1].items, dSink[1])

\* "abcd", a reference of length 3 from 4 back, then one of length 5 from 2 back
C15_Witness ==
    /\ dPc = "done"
    /\ dCut = 0
    /\ dDesc[1].items = <<Lit(97), Lit(98), Lit(99), Lit(100), Ref(3, 4), Ref(5, 2)>>
    /\ dSink = <<<<97, 98, 99, 100, 97, 98, 99, 98, 99, 98, 99, 98>>>>

(***************************************************************************)
(* SpecHuffman: BuildCodeTree on a code-length vector that forms a prefix  *)
(* code, then GetSymbol on a BitStreamer over two bytes that present the   *)
(* code of one of its symbols, most significant code bit first, followed   *)
(* by filler bits.                                                         *)
(***************************************************************************)
MaxSymbols == 4
MaxCodeLen == 3

\* the Kraft sum of the nonzero lengths, in units of 2^-m
RECURSIVE KraftSum(_, _, _)
KraftSum(cl, i, m) ==
    IF i > Len(cl) THEN 0
    ELSE (IF cl[i] = 0 THEN 0 ELSE Pow2(m - cl[i])) + KraftSum(cl, i + 1, m)

\* the lengths form a prefix code: some symbol is used and the Kraft sum is at most 1
IsPrefixCode(cl) ==
    /\ \E i \in 1 .. Len(cl) : cl[i] # 0
    /\ KraftSum(cl, 1, MAX_BITS) <= Pow2(MAX_BITS)

\* every short vector that is a prefix code, two with codes of MAX_BITS bits (an
\* incomplete one and the complete code of lengths 1, 2, ..., 14, 15, 15), and one of
\* 40 symbols of which three are used, two of them with codes of 14 bits
HuffLengths ==
    {cl \in UNION {[1 .. n -> 0 .. MaxCodeLen] : n \in 1 .. MaxSymbols} : IsPrefixCode(cl)}
    \cup {<<1, 15>>, <<1, 2, 3, 4, 5, 6, 7, 8, 9, 10, 11, 12, 13, 14, 15, 15>>}
    \cup {[i \in 1 .. 40 |-> CASE i = 21 -> 14 [] i = 30 -> 1 [] i = 31 -> 14 [] OTHER -> 0]}

\* bl_count[cl]++ with cl = MAX_BITS increments the int that follows the 15 entries
\* of bl_count on the stack: nothing that is read afterwards, or min_bits, or
\* max_bits, which the lambda updates next to it
TreeOutcomes(cl) ==
    IF ~BuildCodeTree(cl).table_ub THEN {BuildCodeTree(cl)}
    ELSE {BuildCodeTree(cl),
          [BuildCodeTree(cl) EXCEPT !.min_bits = @ + 1],
          [BuildCodeTree(cl) EXCEPT !.max_bits = @ + 1]}

\* the two bytes of the stream: the code of the symbol, then the filler
HuffStream(tree, symbol, pad) ==
    PackBytes(SymbolBits(tree, symbol)
              \o [i \in 1 .. 16 - tree.nodes[symbol + 1].length |-> pad])

InitHuffman ==
    /\ oobMem = <<>>
    /\ BitsIdle
    /\ CtxIdle
    /\ DeflIdle
    /\ ZlibIdle
    /\ PngIdle
    /\ AdlerIdle
    /\ DynIdle
    /\ hLens \in HuffLengths
    /\ hSym \in {s \in 0 .. Len(hLens) - 1 : hLens[s + 1] # 0}
    /\ hPad \in {0, 1}
    /\ hTree = NoTree
    /\ hPc = "build"
    /\ hOut = NoSymbol

\* BuildCodeTree(cl_begin, cl_end)
HuffBuild ==
    /\ hPc = "build"
    /\ hTree' \in TreeOutcomes(hLens)
    /\ hPc' = "decode"
    /\ UNCHANGED <<huffFrame, hLens, hSym, hPad, hOut>>

\* the out-of-range write of BuildCodeTree ends the process (a protected stack)
HuffBuildFaults ==
    /\ hPc = "build"
    /\ BuildCodeTree(hLens).table_ub
    /\ hPc' = "crashed"
    /\ UNCHANGED <<huffFrame, hLens, hSym, hPad, hTree, hOut>>

\* GetSymbol(bs, tree, symbol)
HuffDecode ==
    /\ hPc = "decode"
    /\ hOut' = GetSymbol(NewBitStreamer(HuffStream(hTree, hSym, hPad), oobMem), hTree)
    /\ hPc' = "done"
    /\ UNCHANGED <<huffFrame, hLens, hSym, hPad, hTree>>

NextHuffman == HuffBuild \/ HuffBuildFaults \/ HuffDecode

SpecHuffman == InitHuffman /\ [][NextHuffman]_vars

(***************************************************************************)
(* C16: Huffman round trip.  For a code-length vector that forms a prefix  *)
(* code and a symbol of nonzero length, BuildCodeTree returns, and         *)
(* GetSymbol on a stream that presents the symbol's code returns OK with   *)
(* that symbol, having consumed exactly as many bits as the code has.      *)
(***************************************************************************)
C16_HuffmanRoundTrip ==
    /\ hPc # "crashed"
    /\ hPc = "done"
          => /\ hOut.result = "OK"
             /\ hOut.symbol = hSym
             /\ UnreadBits(hOut.bs) = 16 - hLens[hSym + 1]

\* the same for the vectors whose lengths are all below MAX_BITS
C16_ShortCodesRoundTrip ==
    (\A i \in 1 .. Len(hLens) : hLens[i] < MAX_BITS) => C16_HuffmanRoundTrip

(***************************************************************************)
(* SpecAdler: one Adler32 object, Update over a byte sequence A, then      *)
(* Update over a byte sequence B.                                          *)
(***************************************************************************)
MaxAdlerLen == 3
AdlerByteVals == {0, 1, 255}

\* runs of 0xFF long enough for s2 (23 bytes) and for s1 (257 bytes) to pass 65521
AdlerRuns == {[i \in 1 .. n |-> 255] : n \in {23, 257, 300}}

AdlerInputs == SeqsUpTo(AdlerByteVals, MaxAdlerLen) \cup AdlerRuns

InitAdler ==
    /\ oobMem = <<>>
    /\ BitsIdle
    /\ CtxIdle
    /\ DeflIdle
    /\ ZlibIdle
    /\ PngIdle
    /\ HuffIdle
    /\ DynIdle
    /\ aA \in AdlerInputs
    /\ aB \in AdlerInputs
    /\ aValue = initial_Adler32
    /\ aPc = 0

\* adler.Update(A.begin(), A.end())
AdlerFirst ==
    /\ aPc = 0
    /\ aValue' = Update(aValue, aA)
    /\ aPc' = 1
    /\ UNCHANGED <<adlerFrame, aA, aB>>

\* adler.Update(B.begin(), B.end())
AdlerSecond ==
    /\ aPc = 1
    /\ aValue' = Update(aValue, aB)
    /\ aPc' = 2
    /\ UNCHANGED <<adlerFrame, aA, aB>>

NextAdler == AdlerFirst \/ AdlerSecond

SpecAdler == InitAdler /\ [][NextAdler]_vars

(***************************************************************************)
(* C17: the Adler-32 value.  A fresh Adler32 after Update over a byte      *)
(* sequence holds s2 in its upper and s1 in its lower 16 bits, where s1 is *)
(* 1 plus the sum of the bytes and s2 the sum of the successive values of  *)
(* s1, both modulo 65521 and so both below 65521; the empty sequence       *)
(* gives 1.                                                                *)
(***************************************************************************)
C17_AdlerValue ==
    aPc = 1
        => /\ aValue = Adler32Of(aA)
           /\ aValue.lo < 65521
           /\ aValue.hi < 65521
           /\ aA = <<>> => aValue = W32(0, 1)

\* 257 bytes 0xFF: s1 has passed 65521 and is 15
C17_Witness ==
    /\ aPc = 1
    /\ Len(aA) = 257
    /\ aValue.lo = 15
    /\ aValue = Adler32Of(aA)

(***************************************************************************)
(* C18: Adler-32 is a running checksum.  Update over A followed by Update  *)
(* over B on one object gives the value of a single Update over A          *)
(* followed by B; and the value depends on the order of the bytes: the     *)
(* sequences <<0>>, <<1>> give different values in the two orders.         *)
(***************************************************************************)
C18_AdlerRunsOverFragments ==
    /\ aPc = 2 => aValue = Update(initial_Adler32, aA \o aB)
    /\ Update(Update(initial_Adler32, <<0>>), <<1>>)
          # Update(Update(initial_Adler32, <<1>>), <<0>>)

\* two non-empty fragments whose order matters
C18_Witness ==
    /\ aPc = 2
    /\ aA # <<>>
    /\ aB # <<>>
    /\ aValue = Adler32Of(aA \o aB)
    /\ aValue # Adler32Of(aB \o aA)

(***************************************************************************)
(* The unread bits of a reader, from its byte sequence alone: bit j        *)
(* (counted from 0) of the stream is bit j % 8, counted from the least     *)
(* significant, of byte j \div 8.                                          *)
(***************************************************************************)
StreamBitAt(data, j) == (data[(j \div 8) + 1] \div (2 ^ (j % 8))) % 2

\* the j-th bit (from 0) the reader bs has not consumed yet
UnreadBit(bs, j) == StreamBitAt(bs.data, 8 * Len(bs.data) - UnreadBits(bs) + j)

RECURSIVE FirstBitLowest(_, _, _)
FirstBitLowest(bs, k, j) ==
    IF j >= k THEN 0 ELSE UnreadBit(bs, j) * 2 ^ j + FirstBitLowest(bs, k, j + 1)

RECURSIVE FirstBitHighest(_, _, _)
FirstBitHighest(bs, k, j) ==
    IF j >= k THEN 0 ELSE UnreadBit(bs, j) * 2 ^ (k - 1 - j) + FirstBitHighest(bs, k, j + 1)

\* v, a k-bit number, with its bits in the opposite order
RECURSIVE ReverseBits(_, _)
ReverseBits(v, k) == IF k = 0 THEN 0 ELSE (v % 2) * 2 ^ (k - 1) + ReverseBits(v \div 2, k - 1)

\* what the two reads of k bits do from reader state bs, which holds k unread bits
SamePhysicalBits(bs, k, d, h) ==
    /\ d.has
    /\ h.has
    /\ d.v = FirstBitLowest(bs, k, 0)
    /\ h.v = FirstBitHighest(bs, k, 0)
    /\ h.v = ReverseBits(d.v, k)
    /\ h.bs = d.bs
    /\ UnreadBits(d.bs) = UnreadBits(bs) - k
    /\ \A j \in 0 .. UnreadBits(d.bs) - 1 : UnreadBit(d.bs, j) = UnreadBit(bs, k + j)

(***************************************************************************)
(* C19: one physical bit order, two packings.  The bits of the stream are  *)
(* consumed from bit 0 to bit 7 of byte 0, then of byte 1, and so on.      *)
(* From any reader state holding at least k unread bits (1 <= k <= 16),    *)
(* GetDataBits(k) returns the next k bits with the first consumed bit      *)
(* least significant; GetHuffmanBits(k) from the same state consumes the   *)
(* same k bits, leaves the reader in the same state, and returns them with *)
(* the first consumed bit most significant, the k-bit reversal of the      *)
(* GetDataBits value.                                                      *)
(***************************************************************************)
C19_OneBitOrderTwoPackings ==
    (~bis.ub /\ ~bis.crashed)
        => \A k \in 1 .. 16 :
              UnreadBits(bis) >= k
                  => SamePhysicalBits(bis, k, GetDataBits(bis, k), GetHuffmanBits(bis, k))

\* GetHuffmanBits(9) has read across a byte boundary a value that is not its
\* own reversal, and the next three bits give different values in the two packings
C19_Witness ==
    /\ ~bis.ub
    /\ bsLast.op = "GetHuffmanBits"
    /\ bsLast.has
    /\ bsLast.need = 9
    /\ bsLast.v # ReverseBits(bsLast.v, 9)
    /\ UnreadBits(bis) = 7
    /\ GetDataBits(bis, 3).v = 6
    /\ GetHuffmanBits(bis, 3).v = 3

(***************************************************************************)
(* SpecStored: mini_deflate::Decompress over streams of stored blocks,     *)
(* alone or after a fixed block that ends inside a byte or one bit-group   *)
(* short of a byte end, whole or with the last bytes cut off, and with one *)
(* bit flipped (in a length field, a data byte or a discarded bit of a     *)
(* stored block) or none.                                                  *)
(***************************************************************************)
StoredItemLists == {<<>>, <<Lit(97)>>, <<Lit(0), Lit(255)>>}

StoredBlocks ==
    { [final |-> f, btype |-> 0, items |-> it] : f \in {0, 1}, it \in StoredItemLists }
    \cup { [final |-> 0, btype |-> 1, items |-> it] :
              it \in {<<Lit(97)>>, <<Lit(200), Lit(200), Lit(200)>>} }

StoredDescs == UNION { [1 .. n -> StoredBlocks] : n \in 1 .. MaxBlocks }

FlipMasks == {1, 128}
FlipBit(b, m) == IF (b \div m) % 2 = 1 THEN b - m ELSE b + m
\* data with bit m of its k-th byte flipped; k = 0 leaves data alone
Flipped(data, k, m) == [i \in 1 .. Len(data) |-> IF i = k THEN FlipBit(data[i], m) ELSE data[i]]

\* the number of whole bytes before the LEN field of block i of desc
LenFieldAt(desc, i) == (Len(StreamBits(SubSeq(desc, 1, i - 1), 1, <<>>)) + 3 + 7) \div 8

\* where a bit is flipped: in LEN, NLEN or the data of a stored block, or the
\* last of the discarded bits of one that starts a byte; <<0, 1>> is no flip
FlipsOf(desc) ==
    { <<0, 1>> }
    \cup UNION { ({LenFieldAt(desc, i) + j : j \in 1 .. 4 + Len(desc[i].items)} \X FlipMasks)
                 \cup (IF Len(StreamBits(SubSeq(desc, 1, i - 1), 1, <<>>)) % 8 = 0
                       THEN {<<LenFieldAt(desc, i), 128>>} ELSE {}) :
                 i \in {n \in 1 .. Len(desc) : desc[n].btype = 0} }

StoredInputs(desc, cut) ==
    { Flipped(CutEnd(EncodeDeflate(desc), cut), f[1], f[2]) : f \in FlipsOf(desc) }

InitStored ==
    /\ oobMem \in OobMems
    /\ BitsIdle
    /\ CtxIdle
    /\ ZlibIdle
    /\ PngIdle
    /\ HuffIdle
    /\ AdlerIdle
    /\ DynIdle
    /\ dDesc \in StoredDescs
    /\ dCut \in 0 .. MaxCut
    /\ \E data \in StoredInputs(dDesc, dCut) : dBs = NewBitStreamer(data, oobMem)
    /\ dPc = "loop"
    /\ dResult = ""
    /\ dSink = <<>>

NextStored == DeflateIteration

SpecStored == InitStored /\ [][NextStored]_vars

\* the number of bits of its byte sequence the reader bs has consumed
BitsConsumed(bs) == 8 * Len(bs.data) - UnreadBits(bs)

\* the reader is in range and the next three bits, all present, are the header
\* of a block of type 0
AtStoredBlock(bs) ==
    /\ ~bs.ub
    /\ ~bs.crashed
    /\ BitsConsumed(bs) + 3 <= 8 * Len(bs.data)
    /\ StreamBitAt(bs.data, BitsConsumed(bs) + 1) = 0
    /\ StreamBitAt(bs.data, BitsConsumed(bs) + 2) = 0

\* the number of bytes up to the first byte boundary at or after the header
LenOffset(bs) == (BitsConsumed(bs) + 3 + 7) \div 8

\* the 16-bit little-endian value in the two bytes after the first q bytes
Word16(data, q) == data[q + 1] + 256 * data[q + 2]

StoredLEN(bs) == Word16(bs.data, LenOffset(bs))
StoredNLEN(bs) == Word16(bs.data, LenOffset(bs) + 2)

\* RFC 1951 on a stream of stored blocks, from the bytes alone, the block at
\* hand starting after the first q bytes: the fragments up to the first block
\* whose lengths disagree (LengthCorrupt) or up to the final block (OK);
\* "short" when the bytes end first, "other" at a block of another type
RECURSIVE StoredWalk(_, _, _)
StoredWalk(data, q, frags) ==
    IF q + 5 > Len(data) THEN [result |-> "short", frags |-> frags]
    ELSE IF (data[q + 1] \div 2) % 4 # 0 THEN [result |-> "other", frags |-> frags]
    ELSE IF Word16(data, q + 1) + Word16(data, q + 3) # 65535
    THEN [result |-> "LengthCorrupt", frags |-> frags]
    ELSE IF q + 5 + Word16(data, q + 1) > Len(data) THEN [result |-> "short", frags |-> frags]
    ELSE IF data[q + 1] % 2 = 1
    THEN [result |-> "OK",
          frags |-> Append(frags, SubSeq(data, q + 6, q + 5 + Word16(data, q + 1)))]
    ELSE StoredWalk(data, q + 5 + Word16(data, q + 1),
                    Append(frags, SubSeq(data, q + 6, q + 5 + Word16(data, q + 1))))

(***************************************************************************)
(* C20: stored block.  For every block of type 0 of a stream of stored     *)
(* blocks the decoder discards the rest of the current byte and reads LEN  *)
(* and NLEN as 16-bit little-endian values; if (LEN XOR 0xFFFF) # NLEN,    *)
(* that is if LEN + NLEN # 0xFFFF, it returns LengthCorrupt without        *)
(* calling the sink for that block; otherwise it calls the sink once with  *)
(* exactly the next LEN bytes of the input, unchanged and in order.  So    *)
(* the value returned and the fragments passed to the sink are those the   *)
(* bytes of the stream give, block after block.                            *)
(***************************************************************************)
C20_StoredBlock ==
    (/\ dPc = "done"
     /\ StoredWalk(dBs.data, 0, <<>>).result \in {"OK", "LengthCorrupt"})
        => /\ dResult = StoredWalk(dBs.data, 0, <<>>).result
           /\ dSink = StoredWalk(dBs.data, 0, <<>>).frags

\* the same for the blocks the loop gets to: one iteration that starts at a
\* block of type 0 whose four length bytes are in the input
StoredBlockStep ==
    [][(/\ dPc = "loop"
        /\ AtStoredBlock(dBs)
        /\ LenOffset(dBs) + 4 <= Len(dBs.data))
          => IF StoredLEN(dBs) + StoredNLEN(dBs) # 65535
             THEN /\ dResult' = "LengthCorrupt"
                  /\ dPc' = "done"
                  /\ dSink' = dSink
             ELSE LenOffset(dBs) + 4 + StoredLEN(dBs) <= Len(dBs.data)
                     => /\ dSink' = Append(dSink,
                                           SubSeq(dBs.data, LenOffset(dBs) + 5,
                                                  LenOffset(dBs) + 4 + StoredLEN(dBs)))
                        /\ dResult' \in {"", "OK"}
                        /\ ~dBs'.ub
                        /\ BitsConsumed(dBs') = 8 * (LenOffset(dBs) + 4 + StoredLEN(dBs))]_vars

\* a stream of one block: a stored block with a flipped length bit
StoredFirstBlockCorrupt ==
    /\ dPc = "done"
    /\ dResult = "LengthCorrupt"
    /\ dSink = <<>>
    /\ Len(dDesc) = 1
    /\ ~dBs.ub

(***************************************************************************)
(* What RFC 1951 makes of a described stream, block after block.           *)
(***************************************************************************)
\* block k decodes whatever came before it
DecodesAlone(desc, k) ==
    /\ desc[k].btype \in {0, 1}
    /\ RefsWithin(desc[k].items, 1, 0)

\* block k fails whatever came before it: a reserved type, or a back-reference
\* to before the start of the stream's output
FailsAnyway(desc, k) ==
    \/ desc[k].btype = 3
    \/ /\ desc[k].btype = 1
       /\ ~RefsWithin(desc[k].items, 1, LengthBefore(desc, k - 1))

\* the fragments of blocks k, k + 1, ... up to the final block or the first
\* block that fails
RECURSIVE FragmentsFrom(_, _, _)
FragmentsFrom(desc, k, frags) ==
    IF k > Len(desc) THEN frags
    ELSE IF ~DecodesAlone(desc, k) THEN frags
    ELSE IF desc[k].final = 1 THEN Append(frags, ExpandItems(desc[k].items, 1, <<>>))
    ELSE FragmentsFrom(desc, k + 1, Append(frags, ExpandItems(desc[k].items, 1, <<>>)))

(***************************************************************************)
(* C21: the emission contract of Decompress.  For a whole stream the sink  *)
(* has been called exactly once for each block that decodes, in block      *)
(* order, with that block's bytes, and not for a block that fails, so      *)
(* nothing of a failing block is delivered; on empty input the result is   *)
(* EndOfStream and the sink has not been called.                           *)
(***************************************************************************)
C21_EmissionContract ==
    /\ (/\ dPc = "done"
        /\ dCut = 0
        /\ \A k \in 1 .. Len(dDesc) : DecodesAlone(dDesc, k) \/ FailsAnyway(dDesc, k))
          => dSink = FragmentsFrom(dDesc, 1, <<>>)
    /\ (dPc \in {"done", "crashed"} /\ dBs.data = <<>>)
          => (dPc = "done" /\ dResult = "EndOfStream" /\ dSink = <<>>)

\* the same for the blocks the loop gets to: an iteration calls the sink at most
\* once, and does so exactly when it neither returned an error nor faulted
EmissionStep ==
    [][dPc = "loop"
          => /\ \/ dSink' = dSink
                \/ /\ Len(dSink') = Len(dSink) + 1
                   /\ SubSeq(dSink', 1, Len(dSink)) = dSink
             /\ (dPc' # "crashed" /\ dResult' \in {"", "OK"}) <=> (dSink' # dSink)]_vars

\* every violation of C21 has a first block that was passed to the sink
EmissionOfFirstBlock ==
    C21_EmissionContract \/ (Len(dSink) = 1 /\ dResult = "OK" /\ dDesc[1].final = 0)

(***************************************************************************)
(* SpecZlibHeader: one call of mini_zlib::Decompress on any leading part   *)
(* of a ZLIB stream, the empty one and the first byte alone included,      *)
(* whose two header bytes are good, or fail one of the two checks, or      *)
(* both.                                                                   *)
(***************************************************************************)
\* good: 78 9C, 78 01, 08 1D; other compression method with a good check: 77 85;
\* deflate with a failing check: 78 9D; neither: 77 86, 0F 00
HeaderTrials ==
    {<<120, 156>>, <<120, 1>>, <<8, 29>>, <<119, 133>>, <<120, 157>>, <<119, 134>>, <<15, 0>>}

HeaderPayloads ==
    { <<[final |-> 1, btype |-> 1, items |-> <<Lit(97)>>]>>,
      <<[final |-> 1, btype |-> 0, items |-> <<Lit(97), Lit(98)>>]>> }

InitZlibHeader ==
    /\ oobMem \in OobMems
    /\ BitsIdle
    /\ CtxIdle
    /\ DeflIdle
    /\ PngIdle
    /\ HuffIdle
    /\ AdlerIdle
    /\ DynIdle
    /\ zIn \in [hdr : HeaderTrials, desc : HeaderPayloads, trailer : {"all"}, tail : {0}]
    /\ \E k \in 0 .. Len(ZlibStream(zIn)) : zData = SubSeq(ZlibStream(zIn), 1, k)
    /\ zLength \in {0, Len(ZlibStream(zIn))}
    /\ zPc = "call"
    /\ zOut = ZlibEarly(0, "")

NextZlibHeader == ZlibCall

SpecZlibHeader == InitZlibHeader /\ [][NextZlibHeader]_vars

(***************************************************************************)
(* C22: the ZLIB header is validated before any output.  The call returns  *)
(* PrematureEndOfStream when the stream holds fewer than two bytes, else   *)
(* UnsupportedCompressionMethod when (CMF & 0x0F) # 8, else                *)
(* HeaderChecksumError when (CMF * 256 + FLG) mod 31 # 0, in all three     *)
(* cases without having invoked the callback; a header that passes gives   *)
(* neither of the two header errors.                                       *)
(***************************************************************************)
C22_HeaderValidatedBeforeOutput ==
    zPc \in {"done", "crashed"}
        => IF Len(zData) < 2
           THEN zPc = "done" /\ zOut.result = "PrematureEndOfStream" /\ zOut.frags = <<>>
           ELSE IF zData[1] % 16 # 8
           THEN /\ zPc = "done"
                /\ zOut.result = "UnsupportedCompressionMethod"
                /\ zOut.frags = <<>>
           ELSE IF (zData[1] * 256 + zData[2]) % 31 # 0
           THEN zPc = "done" /\ zOut.result = "HeaderChecksumError" /\ zOut.frags = <<>>
           ELSE zOut.result \notin {"UnsupportedCompressionMethod", "HeaderChecksumError"}

\* a whole stream whose header fails both checks: the compression method is reported
C22_Witness ==
    /\ zPc = "done"
    /\ Len(zData) > 2
    /\ zData[1] % 16 # 8
    /\ (zData[1] * 256 + zData[2]) % 31 # 0
    /\ zLength = Len(zData)
    /\ zOut.result = "UnsupportedCompressionMethod"
    /\ zOut.frags = <<>>

(***************************************************************************)
(* The canonical code of RFC 1951, 3.2.2, from the lengths of the symbols  *)
(* that are used: lengths of 0 are not tallied.                            *)
(***************************************************************************)
UsedCount(cl, len) == Cardinality({i \in 1 .. Len(cl) : cl[i] = len /\ len >= 1})

\* the smallest code of length len: 0 for length 1
RECURSIVE SmallestCode(_, _)
SmallestCode(cl, len) ==
    IF len <= 1 THEN 0
    ELSE 2 * (SmallestCode(cl, len - 1) + UsedCount(cl, len - 1))

\* the code of symbol n - 1: codes of one length are consecutive in symbol order
CanonicalCode(cl, n) ==
    SmallestCode(cl, cl[n]) + Cardinality({m \in 1 .. n - 1 : cl[m] = cl[n]})

(***************************************************************************)
(* C23: absent symbols do not disturb the canonical codes.  For a          *)
(* code-length vector that is a prefix code with lengths in 0 .. 14, with  *)
(* any number of symbols of length 0, BuildCodeTree gives each symbol of   *)
(* nonzero length its length and the code of the reference construction    *)
(* that tallies only lengths >= 1 and starts from next_code[1] = 0.        *)
(***************************************************************************)
C23_AbsentSymbolsKeepCodes ==
    (/\ hPc \in {"decode", "done"}
     /\ \A i \in 1 .. Len(hLens) : hLens[i] < MAX_BITS)
        => /\ Len(hTree.nodes) = Len(hLens)
           /\ \A n \in 1 .. Len(hLens) :
                 hLens[n] # 0
                     => /\ hTree.nodes[n].symbol = n - 1
                        /\ hTree.nodes[n].length = hLens[n]
                        /\ hTree.nodes[n].code = CanonicalCode(hLens, n)

\* 37 absent symbols: the table of smallest codes starts from 74 for length 1,
\* and the second code of 14 bits is the reference's
C23_Witness ==
    /\ hPc = "decode"
    /\ Len(hLens) = 40
    /\ UsedCount(hLens, 0) = 0
    /\ next_code(hLens)[1] = 74
    /\ hTree.nodes[31].code = CanonicalCode(hLens, 31)
    /\ hTree.nodes[31].code = 8193

(***************************************************************************)
(* SpecSymbol: BuildCodeTree on any short code-length vector (a prefix     *)
(* code or not, all lengths 0 included), then one GetSymbol call on a      *)
(* fresh BitStreamer over a short byte sequence.                           *)
(***************************************************************************)
SymbolLengths == UNION {[1 .. n -> 0 .. MaxCodeLen] : n \in 1 .. MaxSymbols}

SymbolStreams == {<<>>, <<0>>, <<255>>, <<0, 0, 0>>, <<255, 255, 255>>, <<172, 53, 202>>}

InitSymbol ==
    /\ oobMem = <<>>
    /\ BitsIdle
    /\ CtxIdle
    /\ DeflIdle
    /\ ZlibIdle
    /\ PngIdle
    /\ AdlerIdle
    /\ DynIdle
    /\ hLens \in SymbolLengths
    /\ hSym = 0
    /\ hPad = 0
    /\ hTree = NoTree
    /\ hPc = "build"
    /\ \E data \in SymbolStreams :
          hOut = [bs |-> NewBitStreamer(data, oobMem), result |-> "", symbol |-> 0]

\* GetSymbol(bs, tree, symbol) on the reader at hand
SymbolCall ==
    /\ hPc = "decode"
    /\ hOut' = GetSymbol(hOut.bs, hTree)
    /\ hPc' = "done"
    /\ UNCHANGED <<huffFrame, hLens, hSym, hPad, hTree>>

NextSymbol == HuffBuild \/ SymbolCall

SpecSymbol == InitSymbol /\ [][NextSymbol]_vars

\* the longest code length in use, 0 when no symbol is used
LongestCode(cl) ==
    IF \A i \in 1 .. Len(cl) : cl[i] = 0 THEN 0
    ELSE CHOOSE m \in 1 .. MAX_BITS :
            /\ \E i \in 1 .. Len(cl) : cl[i] = m
            /\ \A i \in 1 .. Len(cl) : cl[i] <= m

\* the first k bits of the byte sequence, first bit most significant
RECURSIVE LeadingCode(_, _)
LeadingCode(data, k) ==
    IF k = 0 THEN 0 ELSE 2 * LeadingCode(data, k - 1) + StreamBitAt(data, k - 1)

\* some symbol's code is the first k bits of the byte sequence, for some k
SomeCodeLeads(tree, data) ==
    \E k \in 1 .. Min(MAX_BITS, 8 * Len(data)) :
        \E n \in 1 .. Len(tree.nodes) :
            tree.nodes[n].length = k /\ tree.nodes[n].code = LeadingCode(data, k)

(***************************************************************************)
(* C24: GetSymbol is bounded by the tree's longest code.  For every tree   *)
(* BuildCodeTree returns, the one whose code lengths are all 0 included,   *)
(* one GetSymbol call consumes at most 15 bits, and no more than the       *)
(* longest code has; it returns EndOfStream only when the stream is        *)
(* shorter than the longest code, and CorruptSymbol when the stream is not *)
(* and no code matches its leading bits.                                   *)
(***************************************************************************)
C24_GetSymbolIsBounded ==
    hPc = "done"
        => /\ BitsConsumed(hOut.bs) <= 15
           /\ BitsConsumed(hOut.bs) <= LongestCode(hLens)
           /\ hOut.result = "EndOfStream" => 8 * Len(hOut.bs.data) < LongestCode(hLens)
           /\ (/\ 8 * Len(hOut.bs.data) >= LongestCode(hLens)
               /\ ~SomeCodeLeads(hTree, hOut.bs.data))
                 => hOut.result = "CorruptSymbol"

\* the same for the trees that have a symbol in use
SymbolOfUsedTree ==
    LongestCode(hLens) > 0 => C24_GetSymbolIsBounded

(***************************************************************************)
(* C25: between ProcessImageData calls the pending buffer holds at most    *)
(* scanLineLengthInBytes + 1 bytes, after any sequence of fragments, a     *)
(* scanline with an unsupported filter type among them or not.             *)
(***************************************************************************)
C25_PendingAtMostOneScanLine ==
    Len(dctx.pendingData) <= dctx.scanLineLengthInBytes + 1

\* the same while no scanline had an unsupported filter type
PendingWhileOK ==
    dctx.result = "OK" => Len(dctx.pendingData) <= dctx.scanLineLengthInBytes

(***************************************************************************)
(* C26: byte alignment.  Between BitStreamer operations the accumulator    *)
(* holds at most 7 bits.  From a reader that has consumed b bits of its    *)
(* input, SkipUntilByteBoundary leaves the reader at bit 8 * ceil(b / 8):  *)
(* it discards only the unread bits of the current byte, never a whole     *)
(* unread byte, and changes nothing when b is a multiple of 8.             *)
(***************************************************************************)
C26_ByteAlignment ==
    (~bis.ub /\ ~bis.crashed)
        => /\ bis.bit_in_buf <= 7
           /\ bis.bit_in_buf = (8 - (BitsConsumed(bis) % 8)) % 8
           /\ BitsConsumed(SkipUntilByteBoundary(bis)) = 8 * ((BitsConsumed(bis) + 7) \div 8)
           /\ SkipUntilByteBoundary(bis).byte_pos = bis.byte_pos
           /\ ~SkipUntilByteBoundary(bis).ub
           /\ BitsConsumed(bis) % 8 = 0 => SkipUntilByteBoundary(bis) = bis
           /\ bsLast.op = "SkipUntilByteBoundary"
                 => /\ bis.bit_in_buf = 0
                    /\ UnreadBits(bis) = 8 * (bsLast.unread \div 8)

\* three bits of a two-byte input had been consumed: the call discarded the
\* other five bits of the first byte and left the second byte unread
C26_Witness ==
    /\ ~bis.ub
    /\ bsLast.op = "SkipUntilByteBoundary"
    /\ bsLast.unread = 13
    /\ UnreadBits(bis) = 8
    /\ bis.byte_pos = 1
    /\ bis.bit_in_buf = 0


(***************************************************************************)
(* SpecDynamic: a block of dynamic Huffman codes (case 2 of Decompress),   *)
(* the reader placed after the three bits of the block header.             *)
(*                                                                         *)
(* A block is described by HLIT, HDIST, the code-length symbols that spell *)
(* the code lengths, and the data symbols that follow:                     *)
(*   [hlit, hdist, ops, items, cut]                                        *)
(* An op is [sym |-> 0 .. 18, x |-> the value of its data bits]; an item   *)
(* is <<"lit", byte>>, <<"ref", length symbol, distance symbol>> (the data *)
(* bits of both all zero) or <<"eos">>.  The code-length code gives each   *)
(* of its 19 symbols a code of five bits, so that the canonical code of    *)
(* symbol s is s itself.                                                   *)
(***************************************************************************)
Op(sym, x) == [sym |-> sym, x |-> x]

\* how many data bits follow a code-length symbol
OpDataBits(sym) == CASE sym = 16 -> 2 [] sym = 17 -> 3 [] sym = 18 -> 7 [] OTHER -> 0

\* how many lengths an op stands for
OpCount(op) ==
    CASE op.sym = 16 -> 3 + op.x [] op.sym = 17 -> 3 + op.x [] op.sym = 18 -> 11 + op.x
      [] OTHER -> 1

\* the ops that spell m zero lengths
RECURSIVE ZeroOps(_)
ZeroOps(m) ==
    IF m >= 11 THEN <<Op(18, (IF m > 138 THEN 138 ELSE m) - 11)>>
                    \o ZeroOps(m - (IF m > 138 THEN 138 ELSE m))
    ELSE IF m >= 3 THEN <<Op(17, m - 3)>>
    ELSE [i \in 1 .. m |-> Op(0, 0)]

RECURSIVE OpsBits(_, _)
OpsBits(ops, i) ==
    IF i > Len(ops) THEN <<>>
    ELSE CodeBits(ops[i].sym, 5) \o FieldBits(ops[i].x, OpDataBits(ops[i].sym))
         \o OpsBits(ops, i + 1)

\* the lengths the ops of a program spell, as RFC 1951 section 3.2.7 reads them
RECURSIVE SpelledLengths(_, _, _)
SpelledLengths(ops, i, lens) ==
    IF i > Len(ops) THEN lens
    ELSE SpelledLengths(ops, i + 1,
            CASE ops[i].sym = 16 -> lens \o [k \in 1 .. 3 + ops[i].x |-> lens[Len(lens)]]
              [] ops[i].sym = 17 -> lens \o [k \in 1 .. 3 + ops[i].x |-> 0]
              [] ops[i].sym = 18 -> lens \o [k \in 1 .. 11 + ops[i].x |-> 0]
              [] OTHER -> Append(lens, ops[i].sym))

\* the code of a data symbol under the tree the decoder builds from the lengths
DynItemBits(item, len_tree, dist_tree) ==
    CASE item[1] = "lit" -> SymbolBits(len_tree, item[2])
      [] item[1] = "eos" -> SymbolBits(len_tree, SYMBOL_EOS)
      [] OTHER ->
            SymbolBits(len_tree, item[2])
            \o FieldBits(0, At(repeat_extra_bits, item[2] - SYMBOL_REPEAT_FIRST))
            \o SymbolBits(dist_tree, item[3])
            \o FieldBits(0, IF item[3] < Len(dist_bits) THEN At(dist_bits, item[3]) ELSE 0)

RECURSIVE DynItemsBits(_, _, _, _)
DynItemsBits(items, i, len_tree, dist_tree) ==
    IF i > Len(items) THEN <<>>
    ELSE DynItemBits(items[i], len_tree, dist_tree)
         \o DynItemsBits(items, i + 1, len_tree, dist_tree)

DynDataBits(prog, lens) ==
    IF prog.items = <<>> \/ Len(lens) < prog.hlit + 1 THEN <<>>
    ELSE DynItemsBits(prog.items, 1, BuildCodeTree(SubSeq(lens, 1, prog.hlit)),
                      BuildCodeTree(SubSeq(lens, prog.hlit + 1, Len(lens))))

DynBits(prog) ==
    FieldBits(prog.hlit - 257, 5) \o FieldBits(prog.hdist - 1, 5) \o FieldBits(15, 4)
    \o [i \in 1 .. 3 * Len(codelen_order) |-> FieldBits(5, 3)[((i - 1) % 3) + 1]]
    \o OpsBits(prog.ops, 1)
    \o (IF prog.ops[1].sym = 16 THEN <<>>
        ELSE DynDataBits(prog, SpelledLengths(prog.ops, 1, <<>>)))

EncodeDynamic(prog) ==
    LET bytes == PackBytes(DynBits(prog)) IN SubSeq(bytes, 1, Len(bytes) - prog.cut)

\* programs of code-length runs: a first length, a run, zeros, and an end that fills
\* the HLIT + HDIST lengths exactly or runs past them
RunFirsts == {Op(v, 0) : v \in {0, 1, 7, 8, 14, 15}} \cup {Op(16, 0), Op(16, 3)}
RunSeconds ==
    {Op(16, x) : x \in 0 .. 3} \cup {Op(17, 0), Op(17, 7), Op(18, 0), Op(18, 127)}
RunEnds ==
    { [need |-> 2, ops |-> <<Op(1, 0), Op(1, 0)>>],
      [need |-> 4, ops |-> <<Op(5, 0), Op(16, 0)>>],
      [need |-> 3, ops |-> <<Op(17, 0)>>],
      [need |-> 11, ops |-> <<Op(18, 0)>>],
      [need |-> 2, ops |-> <<Op(3, 0), Op(16, 3)>>],
      [need |-> 2, ops |-> <<Op(17, 7)>>],
      [need |-> 1, ops |-> <<Op(18, 127)>>] }
RunSizes == {<<257, 1>>, <<258, 2>>}
DynCuts == {0, 3}

RunProgram(first, second, end, size, cut) ==
    [hlit |-> size[1], hdist |-> size[2],
     ops |-> <<first, second>>
             \o ZeroOps(size[1] + size[2] - 1 - OpCount(second) - end.need)
             \o end.ops,
     items |-> <<>>, cut |-> cut]

RunPrograms ==
    {RunProgram(f, s, e, z, c) :
        f \in RunFirsts, s \in RunSeconds, e \in RunEnds, z \in RunSizes, c \in DynCuts}

\* programs of a block with one literal and one reference: the literal/length tree
\* codes 'a', the end of the block and the length 3, the distance tree codes the
\* distance symbols 0 and HDIST - 1
DistSizes == {2, 30, 31, 32}
DistItems(hdist) ==
    { <<Lit(97), <<"ref", SYMBOL_REPEAT_FIRST, d>>, <<"eos">>>> : d \in {0, hdist - 1} }

DistProgram(hdist, items) ==
    [hlit |-> 258, hdist |-> hdist,
     ops |-> ZeroOps(97) \o <<Op(2, 0)>> \o ZeroOps(158) \o <<Op(2, 0), Op(2, 0)>>
             \o <<Op(1, 0)>> \o ZeroOps(hdist - 2) \o <<Op(1, 0)>>,
     items |-> items, cut |-> 0]

DistPrograms == UNION {{DistProgram(h, it) : it \in DistItems(h)} : h \in DistSizes}

InitDynamic ==
    /\ oobMem = <<>>
    /\ BitsIdle
    /\ CtxIdle
    /\ DeflIdle
    /\ ZlibIdle
    /\ PngIdle
    /\ HuffIdle
    /\ AdlerIdle
    /\ yProg \in RunPrograms \cup DistPrograms
    /\ yBs = NewBitStreamer(EncodeDynamic(yProg), oobMem)
    /\ yTrees = NoSymbol
    /\ yBlock = NoSymbol
    /\ yPc = "trees"

\* case 2: ConstructDynamicTrees(bs, len_tree, dist_tree)
DynamicTrees ==
    /\ yPc = "trees"
    /\ yTrees' = ConstructDynamicTrees(yBs)
    /\ yBs' = yTrees'.bs
    /\ yPc' = IF yTrees'.result # "OK" THEN "done"
              ELSE IF yTrees'.len_tree.table_ub \/ yTrees'.dist_tree.table_ub
                   THEN "crashed" ELSE "data"
    /\ UNCHANGED <<dynFrame, yProg, yBlock>>

\* case 2: DecompressBlock(bs, len_tree, dist_tree, output)
DynamicBlockData ==
    /\ yPc = "data"
    /\ yBlock' = DecompressBlock(yBs, yTrees.len_tree, yTrees.dist_tree, <<>>)
    /\ yBs' = yBlock'.bs
    /\ yPc' = IF yBlock'.result = "Undefined" THEN "crashed" ELSE "done"
    /\ UNCHANGED <<dynFrame, yProg, yTrees>>

NextDynamic == DynamicTrees \/ DynamicBlockData

SpecDynamic == InitDynamic /\ [][NextDynamic]_vars

\* the code lengths ConstructDynamicTrees decoded, read off the two trees it built
DecodedLengths(t) ==
    [i \in 1 .. Len(t.len_tree.nodes) |-> t.len_tree.nodes[i].length]
    \o [i \in 1 .. Len(t.dist_tree.nodes) |-> t.dist_tree.nodes[i].length]


C28_TreeSizes ==
    (yPc \in {"data", "done", "crashed"} /\ yTrees.result = "OK") =>
        /\ yTrees.hlit = yProg.hlit /\ yTrees.hdist = yProg.hdist
        /\ Len(yTrees.len_tree.nodes) = yTrees.hlit
        /\ Len(yTrees.dist_tree.nodes) = yTrees.hdist

\* what does hold: the literal/length tree has HLIT entries, the distance tree at
\* least HDIST, and fewer than HDIST + 138, the longest run
TreeSizesWithin ==
    (yPc \in {"data", "done", "crashed"} /\ yTrees.result = "OK") =>
        /\ Len(yTrees.len_tree.nodes) = yTrees.hlit
        /\ Len(yTrees.dist_tree.nodes) >= yTrees.hdist
        /\ Len(yTrees.dist_tree.nodes) < yTrees.hdist + 138

\* a run that ends at HLIT + HDIST exactly leaves trees of HLIT and HDIST entries
ExactRunFills ==
    /\ yPc = "data" /\ yProg.cut = 0
    /\ yProg.ops[Len(yProg.ops)] = Op(16, 0)
    /\ Len(yTrees.len_tree.nodes) = yTrees.hlit
    /\ Len(yTrees.dist_tree.nodes) = yTrees.hdist


\* the distance symbol of the reference a block of DistPrograms holds
ReferenceSymbol(prog) == prog.items[2][3]

\* C29: every distance symbol DecompressBlock uses as an index into the 30-entry
\* distance base and extra-bit tables is in 0 .. 29: for any distance tree, a dynamic
\* tree built with HDIST = 31 or 32 included, a decoded distance symbol of 30 or 31
\* ends the decode with an error rather than indexing the tables.
C29_DistanceSymbolInRange ==
    /\ yBlock.result # "Undefined"
    /\ (/\ yPc \in {"done", "crashed"} /\ yTrees.result = "OK" /\ yProg.items # <<>>
        /\ ReferenceSymbol(yProg) >= Len(dist_base))
          => (yPc = "done" /\ yBlock.result \notin {"", "OK"})

\* what does hold: a reference whose distance symbol is below 30 is decoded, copied
\* from the output when the distance lies within it, CorruptDistance otherwise
DistanceSymbolBelow30 ==
    (/\ yPc \in {"done", "crashed"} /\ yTrees.result = "OK" /\ yProg.items # <<>>
     /\ ReferenceSymbol(yProg) < Len(dist_base))
       => /\ yPc = "done"
          /\ IF ReferenceSymbol(yProg) = 0
             THEN yBlock.result = "OK" /\ yBlock.output = <<97, 97, 97, 97>>
             ELSE yBlock.result = "CorruptDistance"

\* a distance tree of 32 entries gives the distance symbol 31 a code
DistanceSymbol31Decoded ==
    /\ yPc = "data" /\ yProg.hdist = 32 /\ ReferenceSymbol(yProg) = 31
    /\ GetSymbol(GetSymbol(yBs, yTrees.len_tree).bs, yTrees.len_tree).symbol
           = SYMBOL_REPEAT_FIRST
    /\ GetSymbol(GetSymbol(GetSymbol(yBs, yTrees.len_tree).bs, yTrees.len_tree).bs,
                 yTrees.dist_tree).symbol = 31


\* the indexes BuildCodeTree uses on bl_count, an array of MAX_BITS entries:
\* bl_count[cl]++ for each length, bl_count[bits - 1] for bits = 1 .. MAX_BITS
CountIndexes(cl) == {cl[i] : i \in 1 .. Len(cl)} \cup {bits - 1 : bits \in 1 .. MAX_BITS}

\* the indexes it uses on next_code, an array of MAX_BITS + 1 entries:
\* next_code[bits] for bits = 1 .. MAX_BITS, next_code[symbol_length] for each length # 0
NextCodeIndexes(cl) == (1 .. MAX_BITS) \cup ({cl[i] : i \in 1 .. Len(cl)} \ {0})

\* C30: BuildCodeTree keeps every table index in range for every code length DEFLATE
\* allows: for a code-length vector with entries in 0 .. 15, entries equal to 15
\* included, each access to the per-length count table and to the next-code table
\* uses an index inside the table.
C30_TableIndexesInRange ==
    hPc \in {"decode", "done", "crashed"} =>
        /\ CountIndexes(hLens) \subseteq 0 .. MAX_BITS - 1
        /\ NextCodeIndexes(hLens) \subseteq 0 .. MAX_BITS
        /\ ~BuildCodeTree(hLens).table_ub
        /\ hPc # "crashed"

\* what does hold: the indexes of next_code are inside the table, and those of
\* bl_count are when no length is MAX_BITS
IndexesOfShortCodes ==
    hPc \in {"decode", "done", "crashed"} =>
        /\ NextCodeIndexes(hLens) \subseteq 0 .. MAX_BITS
        /\ (\A i \in 1 .. Len(hLens) : hLens[i] < MAX_BITS)
              => (CountIndexes(hLens) \subseteq 0 .. MAX_BITS - 1 /\ hPc # "crashed")


\* C31: the result kinds of mini_zlib::Decompress are distinct: it returns
\* ChecksumError only when the inner DEFLATE decode returned OK and the computed
\* Adler-32 differs from the trailer, and when the inner DEFLATE decode fails the
\* result is DeflateError.
C31_ResultKindsDistinct ==
    zPc = "done" =>
        /\ zOut.result = "ChecksumError"
              => (/\ zOut.deflate = "OK"
                  /\ Adler32Of(Flatten(zOut.frags, 1)) # TrailerRead)
        /\ (zOut.header_ok /\ zOut.deflate \notin {"", "OK"})
              => zOut.result = "DeflateError"

\* what does hold: no call returns DeflateError, and a failed decode is reported
\* as ChecksumError whatever the trailer holds
DeflateFailureIsChecksumError ==
    zPc = "done" =>
        /\ zOut.result # "DeflateError"
        /\ (zOut.header_ok /\ zOut.deflate \notin {"", "OK"})
              => zOut.result = "ChecksumError"

\* a decode that failed on a stream whose trailer is the Adler-32 of what was emitted
FailedDecodeGoodTrailer ==
    /\ zPc = "done" /\ zOut.header_ok
    /\ zOut.deflate = "InvalidBlockType"
    /\ Adler32Of(Flatten(zOut.frags, 1)) = TrailerRead
    /\ zOut.result = "ChecksumError"


\* the height field of the IHDR chunk that follows the signature: the four bytes
\* after the signature, the chunk length, the chunk type and the width
HeightRead ==
    W32(pData[Len(png_signature) + 13] * 256 + pData[Len(png_signature) + 14],
        pData[Len(png_signature) + 15] * 256 + pData[Len(png_signature) + 16])

\* C32: during one Parse the row callback is invoked at most `height` times, height
\* being the value read from IHDR: decompressed image data beyond height complete
\* scanlines never produces a further row.
C32_RowsAtMostHeight ==
    pCalls >= 1 => (HeightRead.hi = 0 => Len(rowLog) <= HeightRead.lo)

\* what does hold: while no scanline has failed, every whole scanline of the image
\* data gives a row, one after the other, whatever the height is
RowsFollowTheData ==
    /\ []((pCalls >= 1 /\ dctx.result = "OK") => Len(rowLog) = dctx.currentLine)
    /\ [][Len(rowLog') >= Len(rowLog)]_vars

\* a second row of an image whose height is 1
RowBeyondHeight ==
    /\ pPc = "done" /\ pResult = "OK" /\ pCalls = 1
    /\ HeightRead = W32(0, 1)
    /\ Len(rowLog) = 2


\* the chunk header the last step of Parse read is that of an IEND chunk
IendRead == pLast.step = "chunk" /\ pLast.ok /\ pLast.type = type_IEND

\* C33: Parse returns OK only after it has read an IEND chunk header: an input that
\* ends at a chunk boundary without any IEND chunk (right after IHDR, or after the
\* last IDAT) does not yield OK.
C33_OkOnlyAfterIend ==
    (pPc = "done" /\ pResult = "OK") => IendRead

\* what does hold: OK is returned after an IEND chunk header, or when the loop over
\* the chunks finds the stream at its end
OkAfterIendOrAtEnd ==
    (pPc = "done" /\ pResult = "OK")
        => (IendRead \/ (pLast.step = "eof" /\ StreamEof(pData, pPos)))

\* the input ends right after the IHDR chunk
OkWithoutIend ==
    /\ pPc = "done" /\ pResult = "OK"
    /\ pIn.cut = 0 /\ pIn.chunks = <<IhdrChunk(GreyAlpha)>>
    /\ pCalls = 1 /\ pChunks = 1 /\ ~pPast


\* the width, bit depth and colour type fields of the IHDR chunk that follows the
\* signature
WidthRead ==
    W32(pData[Len(png_signature) + 9] * 256 + pData[Len(png_signature) + 10],
        pData[Len(png_signature) + 11] * 256 + pData[Len(png_signature) + 12])
BitDepthRead == pData[Len(png_signature) + 17]
ColorTypeRead == pData[Len(png_signature) + 18]

\* PNG's samples per pixel of a colour type
SamplesOf(ct) == CASE ct = 2 -> 3 [] ct = 4 -> 2 [] ct = 6 -> 4 [] OTHER -> 1

\* the header was accepted and DecodeContext was constructed from it
ContextOfSmallImage ==
    /\ pCalls = 1 /\ pPc # "alloc"
    /\ WidthRead.hi = 0 /\ WidthRead.lo >= 1

\* C34: every header accepted by IHDR validation with width >= 1 gives a scanline of
\* at least one data byte: for each valid (colour type, bit depth) pair, bit depths
\* 1, 2 and 4 included, GetScanLineLengthInBytes is
\* ceil(width * samples_per_pixel * bit_depth / 8) and GetBytesPerPixel is at least 1.
C34_ScanLineHasData ==
    ContextOfSmallImage =>
        /\ dctx.scanLineLengthInBytes
              = (WidthRead.lo * SamplesOf(ColorTypeRead) * BitDepthRead + 7) \div 8
        /\ dctx.bytesPerPixel >= 1
        /\ dctx.scanLineLengthInBytes >= 1

\* what does hold: the same for the bit depths 8 and 16, and a scanline and a pixel
\* of no bytes for the bit depths below 8
ScanLineOfWholeBytes ==
    ContextOfSmallImage =>
        IF BitDepthRead >= 8
        THEN /\ dctx.scanLineLengthInBytes
                   = (WidthRead.lo * SamplesOf(ColorTypeRead) * BitDepthRead + 7) \div 8
             /\ dctx.bytesPerPixel = SamplesOf(ColorTypeRead) * (BitDepthRead \div 8)
        ELSE dctx.scanLineLengthInBytes = 0 /\ dctx.bytesPerPixel = 0

\* a palette image of width 3 and bit depth 4 is accepted
EmptyScanLine ==
    /\ ContextOfSmallImage /\ pPc = "loop"
    /\ WidthRead.lo = 3 /\ BitDepthRead = 4 /\ ColorTypeRead = 3
    /\ dctx.scanLineLengthInBytes = 0

====
